---- MODULE Spec2Model ----
(***************************************************************************)
(* TopChefClient: the worker of topchef_client/client.py (class Client and *)
(* its job handle _Job) against a TopChef server.                          *)
(*                                                                         *)
(* Every HTTP request of the client is one atomic step with the server;    *)
(* between two requests the server may change (jobs are submitted, the     *)
(* server goes down or comes back).  The server is not part of the         *)
(* repository: its queue is the ordered list of the service's jobs whose   *)
(* status is in queue_statuses, and both readings of "queue" are covered   *)
(* (a job leaves the queue once it is WORKING, or once it is COMPLETED).   *)
(***************************************************************************)
EXTENDS Integers, Sequences, FiniteSets, TLC

\* ------------------------------------------------------------------ bounds
MaxJobs == 2        \* jobs ever submitted to the service
MaxRuns == MaxJobs + 1   \* calls of run remembered: one more than the jobs
MaxParam == 2       \* job parameters are {value: 0..MaxParam}
MaxDirect == 1      \* calls of run_iteration made by the program itself

\* --------------------------------------------------------- HTTP constants
HTTP_OK == 200
HTTP_CREATED == 201
HTTP_BAD_REQUEST == 400
HTTP_NOT_FOUND == 404
HTTP_SERVER_ERROR == 500

WorkerIds == {1, 2}
\* Client is the abstract base (run is an abstractmethod); ClientForTesting
\* implements run; WithValidationError implements run and has the attribute
\* ValidationError that validate_schema looks up on self
Classes == {"Client", "ClientForTesting", "WithValidationError"}
WorkerClasses == {"ClientForTesting", "WithValidationError"}
Params == 0..MaxParam
None == <<>>                    \* JSON null / Python None

VARIABLES
    \* the server
    alive,            \* the liveness probe GET {address} answers 200
    jobs,             \* sequence of job dicts, jobs[i].id = i
    queue_statuses,   \* the statuses a job has while it is in the queue
    \* the class of each worker: the subclass of Client it was made from
    worker_class,
    \* the processing thread of each worker
    pc, err,          \* position in _processing_loop / run_iteration; uncaught error
    job_id,           \* job_id of current_job (line 253)
    job,              \* _Job._job_dict of the handle being built or used
    parameters,       \* run_iteration's local `parameters`
    results,          \* run_iteration's local `results`
    schema,           \* the schema argument evaluated for validate_schema
    \* the polling thread of each worker
    ppc, perr,
    \* history of the current iteration (not program state)
    acq,              \* the job details from which the parameters were taken (line 320)
    heads,            \* the ids the queue head reads returned, in order
    puts,             \* the PUTs the server applied: <<id, field, value>>
    trace,            \* the steps of the iteration, in order
    ran,              \* per invocation of run: <<id of the job set WORKING, parameters>>
    vresp,            \* status codes the validator answered, in order
    poll_end_alive,   \* was the server alive when the polling loop ended
    \* marks left by the loops of each worker (not program state)
    queue_probe,      \* what the last is_queue_empty of the processing loop returned
    polling,          \* the should_poll argument start was called with
    checked_in,       \* has the worker ever sent a checkin PATCH
    caller,           \* who called the run_iteration the thread is in: the frame
                      \* it returns to
    direct,           \* how many calls of run_iteration the program has made
    runs,             \* the ids of the jobs whose parameters run was called with,
                      \* over all iterations, in order
    \* a program that uses the job handles and new_service directly
    hc,
    \* the services registered with the server, and a program that iterates
    \* over client.services
    registry,         \* the `data` of GET {url}/services: service ids, in order
    it                \* the _TopChefServicesGetter held, and its __next__ calls

server == <<alive, jobs, queue_statuses>>
locals == <<job_id, job, parameters, results, schema>>
proc == <<pc, err>>
poll == <<ppc, perr, poll_end_alive>>
hist == <<acq, heads, puts, trace, ran, vresp>>
calls == <<caller, direct>>
marks == <<queue_probe, polling, checked_in, calls>>
iteration == <<registry, it>>
vars == <<alive, jobs, queue_statuses, pc, err, job_id, job, parameters,
          results, schema, ppc, perr, acq, heads, puts, trace, ran, vresp,
          poll_end_alive, queue_probe, polling, checked_in, hc,
          registry, it, runs, worker_class, caller, direct>>

NoJob == [id |-> 0, status |-> "", parameters |-> None, result |-> None]

\* The direct caller before it has made any call.
NoWorker == [cls |-> "", address |-> "", id |-> ""]
NoJobHandle == [job_id |-> 0, library |-> ""]
NoService == [cls |-> "", address |-> "", status_code |-> 0, id |-> ""]
NoCall ==
    [kind |-> "none",       \* the class of the handle held: "_Job" or "Job"
     op |-> "none",         \* the call in progress or last made
     pc |-> "idle",         \* "idle", "put" inside Job.result's setter, or
                            \* "job" inside Client.current_job
     head |-> 0,            \* current_job's local job_id (line 253)
     status_arg |-> "",     \* the value assigned to status
     result_arg |-> None,   \* the value assigned to result
     service_arg |-> NoService,   \* the inputs of new_service
     job_id |-> 0,          \* the id of the job the handle is for
     dict |-> NoJob,        \* _Job._job_dict
     pre |-> NoJob,         \* _Job._job_dict when the call began
     fetched |-> NoJob,     \* the details the call's GET returned
     reqs |-> <<>>,         \* the requests of the call: <<method, status code>>
     body |-> NoJob,        \* the body of the call's PUT
     ret |-> <<>>,          \* <<the value returned>>
     err |-> "none",        \* the error raised
     at_read |-> NoJob,     \* the server's job when a read returned
     made |-> NoWorker,     \* the Worker or Service the call constructed
     instance |-> None,     \* the instance given to the validator
     schema |-> {},         \* the schema given to the validator
     strategy |-> "",       \* the validator argument: a strategy, or "None"
     uuid |-> "",           \* the key of client.services[...]
     library |-> "",        \* the http_library of the Service called
     made_job |-> NoJobHandle,  \* the Job that Service.new_job returned
     overwrote |-> NoJob,   \* the server's job just before the call's PUT
     objects |-> [instance |-> None, schema |-> {}, body |-> None],
                            \* the objects of a validation: the caller's
                            \* instance and schema, and the request body
     factory |-> "",        \* the validator_factory given to new_job
     raised |-> [endpoint |-> "", status_code |-> 0]]
                            \* what the NetworkError raised carries

\* No _TopChefServicesGetter is held yet.
NoGetter ==
    [held |-> FALSE,        \* has client.services been evaluated
     cursor |-> 0,          \* _last_iterated_index
     pc |-> "idle",         \* "item" inside __next__, after its len(self)
     out |-> <<>>,          \* the ids yielded since the iteration began
     last |-> "none",       \* how the last __next__ ended
     prev |-> <<>>,         \* the ids the last ended iteration yielded
     rounds |-> 0,          \* iterations ended with StopIteration
     stable |-> TRUE]       \* the registry is as it was when the getter was made

\* ------------------------------------------------------------ the server
\* The service's two schemas, as the sets of instances they accept.
ServiceDetails ==
    [job_registration_schema |-> {<<p>> : p \in 1..MaxParam},
     job_result_schema |-> {<<r>> : r \in 0..(2 * MaxParam - 1)}]

\* GET {address}/services/{id}/queue: the ids of the queued jobs, oldest first.
RECURSIVE QueueFrom(_)
QueueFrom(i) ==
    IF i > Len(jobs) THEN <<>>
    ELSE IF jobs[i].status \in queue_statuses
         THEN <<jobs[i].id>> \o QueueFrom(i + 1)
         ELSE QueueFrom(i + 1)

Queue == QueueFrom(1)

\* Status code of a request: a dead server answers nothing with 200, a live
\* one may still fail a single request (ok = FALSE).
Respond(ok) == IF alive /\ ok THEN HTTP_OK ELSE HTTP_SERVER_ERROR

\* POST {address}/validator
ValidatorRespond(ok, instance, sch) ==
    IF ~(alive /\ ok) THEN HTTP_SERVER_ERROR
    ELSE IF instance \in sch THEN HTTP_OK ELSE HTTP_BAD_REQUEST

\* ------------------------------------------------- the client's decisions
\* is_server_alive that takes every answer but a server error for alive
is_server_alive_lenient(status_code) == status_code # HTTP_SERVER_ERROR

\* Client.is_server_alive
is_server_alive(status_code) == status_code = HTTP_OK

\* is_queue_empty with the comparison inverted
is_queue_empty_inverted(data) == data # <<>>

\* Client.is_queue_empty, on the `data` of the queue response
is_queue_empty(data) == data = <<>>

\* start that runs the polling thread whatever should_poll is
start_polling_always(should_poll) == "probe"

\* Client.start: where the polling thread stands after start(should_poll)
start_polling(should_poll) == IF should_poll THEN "probe" ELSE "off"

\* Client._json_get: the error raised for a response status
json_get(status_code) ==
    IF status_code # HTTP_OK THEN "NetworkError" ELSE "none"

\* Client.check_in_to_server
check_in_to_server(status_code) ==
    IF status_code # HTTP_OK THEN "NetworkError" ELSE "none"

\* validate_schema that takes a 400 for a match
validate_schema_ignores_mismatch(cls, status_code) ==
    IF status_code \notin {HTTP_OK, HTTP_BAD_REQUEST} THEN "NetworkError"
    ELSE "none"

\* Client.validate_schema: on 400 the code evaluates self.ValidationError,
\* an attribute Client does not have; a subclass that has it raises it.
validate_schema(cls, status_code) ==
    IF status_code = HTTP_BAD_REQUEST
    THEN IF cls = "WithValidationError" THEN "ValidationError"
         ELSE "AttributeError"
    ELSE IF status_code # HTTP_OK THEN "NetworkError"
    ELSE "none"

\* run_iteration's first except clause: the message of the ProcessingError
\* is built from self.job_registration_schema, one more GET of the service
\* details, whose failure is raised in place of the ProcessingError
input_validation_error(status_code) ==
    IF json_get(status_code) # "none" THEN json_get(status_code)
    ELSE "ProcessingError"

\* run_iteration's second try/except: the handler formats the undefined
\* name `result` while building the ProcessingError
output_validation_error(e) ==
    IF e = "ValidationError" THEN "NameError" ELSE e

\* _Job.status setter: the accepted values
ValidStatuses == {"REGISTERED", "WORKING", "COMPLETED"}

\* _Job._update: the error raised for the PUT's response status
update(status_code) ==
    IF status_code # HTTP_OK THEN "NetworkError" ELSE "none"

\* run_iteration that ends by writing the wrong status
CompletedStatusStaysWorking == "WORKING"
CompletedStatusRegistered == "REGISTERED"

\* The statuses run_iteration writes (lines 331 and 345)
WorkingStatus == "WORKING"
CompletedStatus == "COMPLETED"

\* The user task: Client.run is abstract; the task of the end-to-end
\* example doubles the value.
run(p) == <<2 * p[1]>>


\* ------------------------------------------------------------ initial state
\* Client.__init__ builds the two threads of the Worker without starting
\* them.  Index 1 is the Worker's processing thread (with ppc[1] its polling
\* thread); index 2 is a thread of the program that holds the same Worker
\* and may call its public run_iteration.
Init ==
    /\ alive = TRUE
    /\ jobs = <<>>
    /\ queue_statuses \in {{"REGISTERED"}, {"REGISTERED", "WORKING"}}
    /\ pc = [w \in WorkerIds |-> IF w = 1 THEN "new" ELSE "program"]
    /\ err = [w \in WorkerIds |-> "none"]
    /\ job_id = [w \in WorkerIds |-> 0]
    /\ job = [w \in WorkerIds |-> NoJob]
    /\ parameters = [w \in WorkerIds |-> None]
    /\ results = [w \in WorkerIds |-> None]
    /\ schema = [w \in WorkerIds |-> {}]
    /\ ppc = [w \in WorkerIds |-> "off"]
    /\ perr = [w \in WorkerIds |-> "none"]
    /\ poll_end_alive = [w \in WorkerIds |-> TRUE]
    /\ acq = [w \in WorkerIds |-> NoJob]
    /\ heads = [w \in WorkerIds |-> <<>>]
    /\ puts = [w \in WorkerIds |-> <<>>]
    /\ trace = [w \in WorkerIds |-> <<>>]
    /\ ran = [w \in WorkerIds |-> <<>>]
    /\ vresp = [w \in WorkerIds |-> <<>>]
    /\ queue_probe = [w \in WorkerIds |-> "none"]
    /\ polling = [w \in WorkerIds |-> "unset"]
    /\ checked_in = [w \in WorkerIds |-> FALSE]
    /\ \E cls \in WorkerClasses : worker_class = [w \in WorkerIds |-> cls]
    /\ caller = [w \in WorkerIds |-> "none"]
    /\ direct = 0
    /\ hc = NoCall
    /\ runs = [w \in WorkerIds |-> <<>>]
    /\ registry = <<"service-1">>
    /\ it = NoGetter

\* ------------------------------------------------------------- environment
\* POST {address}/services/{id}/jobs by some user of the service
Submit(p) ==
    /\ alive
    /\ Len(jobs) < MaxJobs
    /\ jobs' = Append(jobs, [id |-> Len(jobs) + 1, status |-> "REGISTERED",
                             parameters |-> <<p>>, result |-> None])
    /\ UNCHANGED <<hc, iteration, worker_class, runs, marks, alive, queue_statuses, proc,
                   locals, poll, hist>>

ServerDown ==
    /\ alive
    /\ alive' = FALSE
    /\ UNCHANGED <<hc, iteration, worker_class, runs, marks, jobs, queue_statuses, proc,
                   locals, poll, hist>>

ServerUp ==
    /\ ~alive
    /\ alive' = TRUE
    /\ UNCHANGED <<hc, iteration, worker_class, runs, marks, jobs, queue_statuses, proc,
                   locals, poll, hist>>

\* ------------------------------------------------------------ Client.start
\* Line 355 of the first start(should_poll=True): polling_thread.start().
\* The polling loop runs from here on, while the caller has yet to reach
\* line 356.
StartPolling(w) ==
    /\ pc[w] = "new" /\ polling[w] = "unset"
    /\ ppc' = [ppc EXCEPT ![w] = start_polling(TRUE)]
    /\ polling' = [polling EXCEPT ![w] = "yes"]
    /\ UNCHANGED <<hc, iteration, worker_class, calls, runs, queue_probe,
                   checked_in, server, proc, locals, perr, poll_end_alive,
                   hist>>

\* Line 356 of the first start: processing_thread.start(), reached after
\* line 355 by start(should_poll=True) and at once by
\* start(should_poll=False), whose line 355 starts nothing.
Start(w) ==
    /\ pc[w] = "new"
    /\ IF polling[w] = "unset"
       THEN /\ ppc' = [ppc EXCEPT ![w] = start_polling(FALSE)]
            /\ polling' = [polling EXCEPT ![w] = "no"]
       ELSE UNCHANGED <<ppc, polling>>
    /\ pc' = [pc EXCEPT ![w] = "loop"]
    /\ UNCHANGED <<hc, iteration, worker_class, calls, runs, queue_probe, checked_in, server, err, locals,
                   perr, poll_end_alive, hist>>

\* start(should_poll=False)
StartProcessing(w) == Start(w) /\ polling'[w] = "no"

\* Client.start on a Client whose processing thread was started before:
\* line 355 starts the polling thread when should_poll holds and that
\* thread was never started, and Thread.start of a thread started before
\* raises RuntimeError to the caller (line 355 or line 356)
start_again(should_poll, polling_thread) ==
    IF should_poll /\ polling_thread = "off" THEN "probe" ELSE polling_thread

StartAgain(w) ==
    /\ pc[w] \notin {"new", "absent"} /\ polling[w] # "unset"
    /\ \E should_poll \in BOOLEAN :
           ppc' = [ppc EXCEPT ![w] = start_again(should_poll, @)]
    /\ UNCHANGED <<hc, iteration, worker_class, runs, marks, server, proc,
                   locals, perr, poll_end_alive, hist>>

\* ---------------------------------------------------- Client._polling_loop
\* while self.is_server_alive:
PollProbe(w) ==
    /\ ppc[w] = "probe"
    /\ \E ok \in BOOLEAN :
           IF is_server_alive(Respond(ok))
           THEN /\ ppc' = [ppc EXCEPT ![w] = "checkin"]
                /\ UNCHANGED poll_end_alive
           ELSE /\ ppc' = [ppc EXCEPT ![w] = "done"]
                /\ poll_end_alive' = [poll_end_alive EXCEPT ![w] = alive]
    /\ UNCHANGED <<hc, iteration, worker_class, runs, marks, server, proc, locals, perr, hist>>

\* A checkin whose failure takes the processing loop down with it
CheckInStopsWorker(w) ==
    /\ ppc[w] = "checkin"
    /\ checked_in' = [checked_in EXCEPT ![w] = TRUE]
    /\ ppc' = [ppc EXCEPT ![w] = "failed"]
    /\ perr' = [perr EXCEPT ![w] = "NetworkError"]
    /\ poll_end_alive' = [poll_end_alive EXCEPT ![w] = alive]
    /\ pc' = [pc EXCEPT ![w] = "failed"]
    /\ err' = [err EXCEPT ![w] = "NetworkError"]
    /\ UNCHANGED <<hc, iteration, worker_class, calls, runs, queue_probe, polling, server, locals, hist>>

\*     self.check_in_to_server(self.address, self.id)
CheckIn(w) ==
    /\ ppc[w] = "checkin"
    /\ \E ok \in BOOLEAN :
           LET e == check_in_to_server(Respond(ok)) IN
           /\ checked_in' = [checked_in EXCEPT ![w] = TRUE]
           /\ IF e = "none"
              THEN /\ ppc' = [ppc EXCEPT ![w] = "sleep"]
                   /\ UNCHANGED <<perr, poll_end_alive>>
              ELSE /\ ppc' = [ppc EXCEPT ![w] = "failed"]
                   /\ perr' = [perr EXCEPT ![w] = e]
                   /\ poll_end_alive' = [poll_end_alive EXCEPT ![w] = alive]
    /\ UNCHANGED <<hc, iteration, worker_class, calls, runs, queue_probe, polling, server, proc,
                   locals, hist>>

\*     time.sleep(self.timeout)
Sleep(w) ==
    /\ ppc[w] = "sleep"
    /\ ppc' = [ppc EXCEPT ![w] = "probe"]
    /\ UNCHANGED <<hc, iteration, worker_class, runs, marks, server, proc, locals, perr,
                   poll_end_alive, hist>>

\* ------------------------------------------------- Client._processing_loop
\* A processing loop that notes the error and goes on
RaiseAndContinue(w, e) ==
    /\ pc' = [pc EXCEPT ![w] = "loop"]
    /\ err' = [err EXCEPT ![w] = e]

Raise(w, e) ==
    /\ pc' = [pc EXCEPT ![w] = "failed"]
    /\ err' = [err EXCEPT ![w] = e]

Goto(w, l) ==
    /\ pc' = [pc EXCEPT ![w] = l]
    /\ UNCHANGED err

\* while self.is_server_alive:
ProbeAlive(w) ==
    /\ pc[w] = "loop"
    /\ \E ok \in BOOLEAN :
           IF is_server_alive(Respond(ok))
           THEN Goto(w, "queue_check")
           ELSE Goto(w, "done")
    /\ UNCHANGED <<hc, iteration, worker_class, runs, marks, server, locals, poll, hist>>

\*     if self.is_queue_empty: continue
\*     else: self.run_iteration()
ProbeQueue(w) ==
    /\ pc[w] = "queue_check"
    /\ \E ok \in BOOLEAN :
           LET e == json_get(Respond(ok)) IN
           IF e # "none"
           THEN Raise(w, e) /\ UNCHANGED <<hist, queue_probe, caller>>
           ELSE IF is_queue_empty(Queue)
           THEN /\ Goto(w, "loop")
                /\ queue_probe' = [queue_probe EXCEPT ![w] = "empty"]
                /\ UNCHANGED <<hist, caller>>
           ELSE /\ Goto(w, "acquire_head")
                /\ caller' = [caller EXCEPT ![w] = "_processing_loop"]
                /\ queue_probe' = [queue_probe EXCEPT ![w] = "not empty"]
                /\ acq' = [acq EXCEPT ![w] = NoJob]
                /\ heads' = [heads EXCEPT ![w] = <<>>]
                /\ puts' = [puts EXCEPT ![w] = <<>>]
                /\ trace' = [trace EXCEPT ![w] = <<>>]
                /\ ran' = [ran EXCEPT ![w] = <<>>]
                /\ vresp' = [vresp EXCEPT ![w] = <<>>]
    /\ UNCHANGED <<hc, iteration, worker_class, direct, runs, polling,
                   checked_in, server, locals, poll>>


\* ---------------------------------------------------- Client.run_iteration
\* run_iteration returns to the frame that called it: _processing_loop
\* (line 312), or the program.
AfterIteration(w) == IF caller[w] = "program" THEN "program" ELSE "loop"

\* run_iteration is public ("exposed to enable packaging of the Client's
\* main loop in a more elaborate multitasking system"): a thread of the
\* program that holds the Worker calls it, whether or not the Worker was
\* started and whatever its loops are doing.
RunIteration(w) ==
    /\ pc[w] = "program"
    /\ direct < MaxDirect
    /\ direct' = direct + 1
    /\ caller' = [caller EXCEPT ![w] = "program"]
    /\ Goto(w, "acquire_head")
    /\ acq' = [acq EXCEPT ![w] = NoJob]
    /\ heads' = [heads EXCEPT ![w] = <<>>]
    /\ puts' = [puts EXCEPT ![w] = <<>>]
    /\ trace' = [trace EXCEPT ![w] = <<>>]
    /\ ran' = [ran EXCEPT ![w] = <<>>]
    /\ vresp' = [vresp EXCEPT ![w] = <<>>]
    /\ UNCHANGED <<hc, iteration, worker_class, runs, queue_probe, polling,
                   checked_in, server, locals, poll>>

\* The program catches the error its call of run_iteration raised and
\* goes on
RunIterationRaised(w) ==
    /\ pc[w] = "failed" /\ caller[w] = "program"
    /\ pc' = [pc EXCEPT ![w] = "program"]
    /\ err' = [err EXCEPT ![w] = "none"]
    /\ job_id' = [job_id EXCEPT ![w] = 0]
    /\ job' = [job EXCEPT ![w] = NoJob]
    /\ parameters' = [parameters EXCEPT ![w] = None]
    /\ results' = [results EXCEPT ![w] = None]
    /\ schema' = [schema EXCEPT ![w] = {}]
    /\ UNCHANGED <<hc, iteration, worker_class, runs, marks, server, poll,
                   hist>>

\* The four places where run_iteration evaluates self.current_job (lines
\* 320, 331, 344, 345): each reads the queue head, then GETs that job.
HeadSites == {"acquire_head", "working_head", "result_head", "completed_head"}
JobSites == {"acquire_job", "working_job", "result_job", "completed_job"}

JobSite(l) ==
    CASE l = "acquire_head" -> "acquire_job"
      [] l = "working_head" -> "working_job"
      [] l = "result_head" -> "result_job"
      [] l = "completed_head" -> "completed_job"

\* run_iteration that sets WORKING before it validates the parameters
AfterJobWorkingFirst(l) ==
    CASE l = "acquire_job" -> "working_put"
      [] l = "working_job" -> "working_put"
      [] l = "result_job" -> "result_put"
      [] l = "completed_job" -> "completed_put"

AfterJob(l) ==
    CASE l = "acquire_job" -> "registration_schema"
      [] l = "working_job" -> "working_put"
      [] l = "result_job" -> "result_put"
      [] l = "completed_job" -> "completed_put"

\* Client._first_job_id_in_queue: self._json_get(queue_endpoint)['data'][0]['id']
FirstJobIdInQueue(w) ==
    /\ pc[w] \in HeadSites
    /\ \E ok \in BOOLEAN :
           LET e == json_get(Respond(ok)) IN
           IF e # "none"
           THEN Raise(w, e) /\ UNCHANGED <<job_id, heads>>
           ELSE IF Queue = <<>>
           THEN Raise(w, "IndexError") /\ UNCHANGED <<job_id, heads>>
           ELSE /\ Goto(w, JobSite(pc[w]))
                /\ job_id' = [job_id EXCEPT ![w] = Head(Queue)]
                /\ heads' = [heads EXCEPT ![w] = Append(@, Head(Queue))]
    /\ UNCHANGED <<hc, iteration, worker_class, runs, marks, server, job, parameters,
                   results, schema, poll, acq, puts,
                   trace, ran, vresp>>

\* Client.current_job after the head id is known: GET the job details and
\* wrap them in a _Job; at line 320 the parameters are read from it.
CurrentJob(w) ==
    /\ pc[w] \in JobSites
    /\ \E ok \in BOOLEAN :
           LET e == json_get(Respond(ok))
               details == jobs[job_id[w]]
           IN
           IF e # "none"
           THEN Raise(w, e) /\ UNCHANGED <<job, parameters, acq, trace>>
           ELSE /\ Goto(w, AfterJob(pc[w]))
                /\ job' = [job EXCEPT ![w] = details]
                /\ IF pc[w] = "acquire_job"
                   THEN /\ parameters' = [parameters EXCEPT ![w] = details.parameters]
                        /\ acq' = [acq EXCEPT ![w] = details]
                        /\ trace' = [trace EXCEPT ![w] = Append(@, "acquire")]
                   ELSE UNCHANGED <<parameters, acq, trace>>
    /\ UNCHANGED <<hc, iteration, worker_class, runs, marks, server, job_id, results, schema, poll,
                   heads, puts, ran, vresp>>

\* self.job_registration_schema / self.job_result_schema, the argument of
\* validate_schema that is evaluated before the call: GET the service details
JobSchema(w) ==
    /\ pc[w] \in {"registration_schema", "result_schema"}
    /\ \E ok \in BOOLEAN :
           LET e == json_get(Respond(ok)) IN
           IF e # "none"
           THEN Raise(w, e) /\ UNCHANGED schema
           ELSE IF pc[w] = "registration_schema"
           THEN /\ Goto(w, "validate_input")
                /\ schema' = [schema EXCEPT ![w] =
                                  ServiceDetails.job_registration_schema]
           ELSE /\ Goto(w, "validate_output")
                /\ schema' = [schema EXCEPT ![w] =
                                  ServiceDetails.job_result_schema]
    /\ UNCHANGED <<hc, iteration, worker_class, runs, marks, server, job_id, job, parameters,
                   results, poll, hist>>

\* try: self.validate_schema(instance, schema) except ValidationError: ...
ValidateSchema(w) ==
    /\ pc[w] \in {"validate_input", "validate_output"}
    /\ \E ok \in BOOLEAN :
           LET input == pc[w] = "validate_input"
               instance == IF input THEN parameters[w] ELSE results[w]
               status_code == ValidatorRespond(ok, instance, schema[w])
               raised == validate_schema(worker_class[w], status_code)
               e == IF input THEN raised ELSE output_validation_error(raised)
           IN
           /\ vresp' = [vresp EXCEPT ![w] = Append(@, status_code)]
           /\ IF input /\ raised = "ValidationError"
              THEN Goto(w, "input_handler") /\ UNCHANGED trace
              ELSE IF e # "none"
              THEN Raise(w, e) /\ UNCHANGED trace
              ELSE /\ Goto(w, IF input THEN "working_head" ELSE "result_head")
                   /\ trace' = [trace EXCEPT ![w] = Append(@,
                          IF input THEN "validate_input" ELSE "validate_output")]
    /\ UNCHANGED <<hc, iteration, worker_class, runs, marks, server, locals, poll, acq,
                   heads, puts, ran>>

\* except ValidationError: raise ProcessingError(... % (parameters,
\* self.job_registration_schema)), lines 324-329
InputValidationHandler(w) ==
    /\ pc[w] = "input_handler"
    /\ \E ok \in BOOLEAN : Raise(w, input_validation_error(Respond(ok)))
    /\ UNCHANGED <<hc, iteration, worker_class, runs, marks, server, locals,
                   poll, hist>>

\* self.current_job.status = ...: the _Job.status setter, then _Job._update
SetStatus(w) ==
    /\ pc[w] \in {"working_put", "completed_put"}
    /\ LET first == pc[w] = "working_put"
           new_status == IF first THEN WorkingStatus ELSE CompletedStatus
           job_dict == [job[w] EXCEPT !.status = new_status]
       IN
       IF new_status \notin ValidStatuses
       THEN Raise(w, "ValueError") /\ UNCHANGED <<jobs, locals, puts, trace>>
       ELSE \E ok \in BOOLEAN :
           LET status_code == Respond(ok)
               e == update(status_code)
           IN
           /\ IF status_code = HTTP_OK
              THEN /\ jobs' = [jobs EXCEPT ![job_dict.id] = job_dict]
                   /\ puts' = [puts EXCEPT ![w] =
                                 Append(@, <<job_dict.id, "status", new_status>>)]
              ELSE UNCHANGED <<jobs, puts>>
           /\ IF e # "none"
              THEN /\ Raise(w, e)
                   /\ job' = [job EXCEPT ![w] = job_dict]
                   /\ UNCHANGED <<job_id, parameters, results, schema, trace>>
              ELSE IF first
              THEN /\ Goto(w, "run")
                   /\ job' = [job EXCEPT ![w] = job_dict]
                   /\ trace' = [trace EXCEPT ![w] = Append(@, "write_working")]
                   /\ UNCHANGED <<job_id, parameters, results, schema>>
              ELSE \* run_iteration returns: its locals are gone
                   /\ Goto(w, AfterIteration(w))
                   /\ trace' = [trace EXCEPT ![w] = Append(@, "write_completed")]
                   /\ job_id' = [job_id EXCEPT ![w] = 0]
                   /\ job' = [job EXCEPT ![w] = NoJob]
                   /\ parameters' = [parameters EXCEPT ![w] = None]
                   /\ results' = [results EXCEPT ![w] = None]
                   /\ schema' = [schema EXCEPT ![w] = {}]
    /\ UNCHANGED <<hc, iteration, worker_class, runs, marks, alive, queue_statuses, poll,
                   acq, heads, ran, vresp>>

\* results = self.run(parameters): the user task returns or raises.
\* `keep` says whether the call is added to the history of all iterations.
RunStep(w, keep) ==
    /\ pc[w] = "run"
    /\ ran' = [ran EXCEPT ![w] = Append(@, <<job[w].id, parameters[w]>>)]
    /\ runs' = [runs EXCEPT ![w] = IF keep /\ Len(@) < MaxRuns
                                   THEN Append(@, acq[w].id) ELSE @]
    /\ \E raises \in BOOLEAN :
           IF raises
           THEN Raise(w, "RunError") /\ UNCHANGED <<results, trace>>
           ELSE /\ Goto(w, "result_schema")
                /\ results' = [results EXCEPT ![w] = run(parameters[w])]
                /\ trace' = [trace EXCEPT ![w] = Append(@, "run")]
    /\ UNCHANGED <<hc, iteration, worker_class, marks, server, job_id, job, parameters,
                   schema, poll, acq, heads, puts, vresp>>

Run(w) == RunStep(w, TRUE)

\* self.current_job.result = results: the _Job.result setter, then _update
SetResult(w) ==
    /\ pc[w] = "result_put"
    /\ LET job_dict == [job[w] EXCEPT !.result = results[w]] IN
       \E ok \in BOOLEAN :
           LET status_code == Respond(ok)
               e == update(status_code)
           IN
           /\ job' = [job EXCEPT ![w] = job_dict]
           /\ IF status_code = HTTP_OK
              THEN /\ jobs' = [jobs EXCEPT ![job_dict.id] = job_dict]
                   /\ puts' = [puts EXCEPT ![w] =
                                 Append(@, <<job_dict.id, "result", results[w]>>)]
              ELSE UNCHANGED <<jobs, puts>>
           /\ IF e # "none"
              THEN Raise(w, e) /\ UNCHANGED trace
              ELSE /\ Goto(w, "completed_head")
                   /\ trace' = [trace EXCEPT ![w] = Append(@, "write_result")]
    /\ UNCHANGED <<hc, iteration, worker_class, runs, marks, alive, queue_statuses, job_id,
                   parameters, results, schema,
                   poll, acq, heads, ran, vresp>>

\* ------------------------------------------------------------ specification
\* The Worker of Init is used by one program.  Index 1 is the Worker's
\* processing thread (ppc[1] is its polling thread), index 2 is the thread
\* of the program that holds the Worker and calls its public run_iteration.
\*
\* The steps of the server and of the users of the service
Environment ==
    \/ \E p \in Params : Submit(p)
    \/ ServerDown
    \/ ServerUp

\* The steps of run_iteration, in whichever thread it was called
Iteration ==
    \/ \E w \in WorkerIds : FirstJobIdInQueue(w)
    \/ \E w \in WorkerIds : CurrentJob(w)
    \/ \E w \in WorkerIds : JobSchema(w)
    \/ \E w \in WorkerIds : ValidateSchema(w)
    \/ \E w \in WorkerIds : InputValidationHandler(w)
    \/ \E w \in WorkerIds : SetStatus(w)
    \/ \E w \in WorkerIds : Run(w)
    \/ \E w \in WorkerIds : SetResult(w)

\* _processing_loop outside run_iteration
ProcessingLoop ==
    \/ \E w \in WorkerIds : ProbeAlive(w)
    \/ \E w \in WorkerIds : ProbeQueue(w)

PollingLoop ==
    \/ \E w \in WorkerIds : PollProbe(w)
    \/ \E w \in WorkerIds : CheckIn(w)
    \/ \E w \in WorkerIds : Sleep(w)

\* A program that constructs the Worker, calls start and leaves the work to
\* the Worker's two loops
NextLoops ==
    \/ Environment
    \/ \E w \in WorkerIds : StartPolling(w)
    \/ \E w \in WorkerIds : Start(w)
    \/ \E w \in WorkerIds : StartAgain(w)
    \/ PollingLoop
    \/ ProcessingLoop
    \/ Iteration

SpecLoops == Init /\ [][NextLoops]_vars

\* A program that calls run_iteration itself, on a Worker it has not
\* started, while the Worker's processing loop runs, or after that loop
\* ended; it starts the Worker with start(should_poll=False), so that no
\* polling thread runs (the polling loop shares no state with an iteration)
NextDirect ==
    \/ Environment
    \/ \E w \in WorkerIds : StartProcessing(w)
    \/ \E w \in WorkerIds : RunIteration(w)
    \/ \E w \in WorkerIds : RunIterationRaised(w)
    \/ ProcessingLoop
    \/ Iteration

SpecDirect == Init /\ [][NextDirect]_vars

\* Every step of the program, the Worker and the server
Next ==
    \/ NextLoops
    \/ \E w \in WorkerIds : RunIteration(w)
    \/ \E w \in WorkerIds : RunIterationRaised(w)

Spec == Init /\ [][Next]_vars


\* ================================================================== claims
Steps == <<"acquire", "validate_input", "write_working", "run",
           "validate_output", "write_result", "write_completed">>

IsPrefix(s, t) == Len(s) <= Len(t) /\ \A i \in 1..Len(s) : s[i] = t[i]

\* run_iteration of worker w has returned normally
IterationDone(w) == trace[w] = Steps

\* the worker's PUTs of the iteration, as the server saw them
HappyWrites(J, r) ==
    << <<J, "status", "WORKING">>, <<J, "result", r>>,
       <<J, "status", "COMPLETED">> >>

\* C1: end-to-end happy path.  When run_iteration returns normally (every
\* call of it succeeded) and the job J it acquired at the queue head was
\* REGISTERED, J is COMPLETED on the server with result run(parameters),
\* and the server saw exactly the writes status WORKING, result, status
\* COMPLETED, all on J and in this order.
C1_HappyPath ==
    \A w \in WorkerIds :
        (IterationDone(w) /\ acq[w].status = "REGISTERED") =>
            LET J == acq[w].id
                r == run(acq[w].parameters)
            IN /\ jobs[J].status = "COMPLETED"
               /\ jobs[J].result = r
               /\ jobs[J].parameters = acq[w].parameters
               /\ puts[w] = HappyWrites(J, r)

\* C2: within one run_iteration every write (status WORKING, result, status
\* COMPLETED) goes to the job whose parameters were passed to run, whatever
\* the queue does during the iteration.
C2_SingleJobHandle ==
    \A w \in WorkerIds :
        /\ \A i \in 1..Len(puts[w]) : puts[w][i][1] = acq[w].id
        /\ \A i \in 1..Len(ran[w]) :
               ran[w][i] = <<acq[w].id, acq[w].parameters>>

\* C3: whenever the validator answers 400 (parameters or result do not match
\* the schema), run_iteration fails with ProcessingError and nothing else:
\* once the except clause has run, the iteration has failed with that error.
C3_MismatchIsProcessingError ==
    \A w \in WorkerIds :
        (vresp[w] # <<>> /\ vresp[w][Len(vresp[w])] = HTTP_BAD_REQUEST
            /\ pc[w] # "input_handler") =>
            (pc[w] = "failed" /\ err[w] = "ProcessingError")

\* the iteration of w ended in its input validation / its output validation
InputValidationFailed(w) ==
    pc[w] = "failed" /\ Len(vresp[w]) = 1 /\ vresp[w][1] # HTTP_OK

OutputValidationFailed(w) ==
    pc[w] = "failed" /\ Len(vresp[w]) = 2 /\ vresp[w][2] # HTTP_OK

\* C4 as the specification states it: at the step at which input
\* validation fails (validator answers 400, or the validator call fails),
\* no PUT was sent, run was not invoked, and the job on the server is as
\* acquired, with status REGISTERED.
C4_LeftRegistered ==
    \A w \in WorkerIds :
        (pc[w] \in {"validate_input", "input_handler"}
            /\ pc'[w] = "failed") =>
            /\ puts'[w] = <<>>
            /\ ran'[w] = <<>>
            /\ jobs'[acq[w].id] = acq[w]
            /\ jobs'[acq[w].id].status = "REGISTERED"

C4_InputFailureLeavesJob == [][C4_LeftRegistered]_vars

\* the places of run_iteration up to the end of its input validation
InputSites == {"acquire_head", "acquire_job", "registration_schema",
               "validate_input", "input_handler"}

\* C4: an iteration whose input validation fails (validator answers 400, or
\* the validator call fails) does not advance the job: it has sent no PUT
\* and has not invoked run, and none of its steps, from the acquisition to
\* the failure, changes any job on the server; the job keeps the status and
\* the result it was acquired with (REGISTERED, or WORKING when an earlier
\* iteration had left it so) unless another iteration writes it meanwhile.
C4_NoWrite ==
    \A w \in WorkerIds :
        /\ InputValidationFailed(w) =>
               /\ puts[w] = <<>>
               /\ ran[w] = <<>>
               /\ trace[w] = <<"acquire">>
        /\ pc[w] \in InputSites => puts[w] = <<>> /\ ran[w] = <<>>

C4_InputStep ==
    \A w \in WorkerIds :
        (pc[w] \in InputSites /\ pc'[w] # pc[w]) =>
            /\ jobs' = jobs
            /\ pc'[w] \in InputSites \cup {"failed", "working_head"}
            /\ pc'[w] = "failed" => puts'[w] = <<>> /\ ran'[w] = <<>>

C4_InputFailureAdvancesNothing == []C4_NoWrite /\ [][C4_InputStep]_vars

\* the validator rejected the parameters of the job acquired by an
\* iteration the program called, and the job is still as acquired
C4_Witness ==
    \E w \in WorkerIds :
        /\ InputValidationFailed(w) /\ caller[w] = "program"
        /\ vresp[w][1] = HTTP_BAD_REQUEST
        /\ jobs[acq[w].id] = acq[w]

C6_RunOnlyValidated ==
    \A w \in WorkerIds :
        \A i \in 1..Len(ran[w]) :
            /\ vresp[w] # <<>> /\ vresp[w][1] = HTTP_OK
            /\ ran[w][i][2] \in ServiceDetails.job_registration_schema

C6_Witness ==
    \E w \in WorkerIds : ran[w] # <<>> /\ ran[w][1][2] = <<MaxParam>>

\* the places of run_iteration
IterationSites ==
    HeadSites \cup JobSites \cup
    {"registration_schema", "validate_input", "input_handler", "working_put",
     "run", "result_schema", "validate_output", "result_put",
     "completed_put"}

\* C7, within an iteration: the steps of an iteration occur in the order
\* acquire (line 320), validate input, write WORKING, run, validate output,
\* write result, write COMPLETED, a write step being the handle's fetch and
\* its PUT; run is invoked only after the WORKING write succeeded and at
\* most once per iteration.
C7_StepOrder ==
    \A w \in WorkerIds :
        /\ IsPrefix(trace[w], Steps)
        /\ Len(ran[w]) <= 1
        /\ ran[w] # <<>> =>
               /\ Len(trace[w]) >= 3
               /\ puts[w] # <<>>
               /\ puts[w][1] = <<ran[w][1][1], "status", "WORKING">>
        /\ pc[w] = "run" => trace[w] = SubSeq(Steps, 1, 3)

\* C7, across iterations: a thread begins to acquire only when it is in no
\* iteration: the processing loop from its queue probe, before its first
\* iteration or after the previous one returned, and the program from its
\* own code, when the run_iteration it called before has returned or raised.
C7_NextAfterReturn ==
    \A w \in WorkerIds :
        (pc'[w] = "acquire_head" /\ pc[w] # "acquire_head") =>
            \/ /\ pc[w] = "queue_check" /\ caller'[w] = "_processing_loop"
               /\ trace[w] \in {<<>>, Steps}
            \/ pc[w] = "program" /\ caller'[w] = "program"

\* C7, for the Worker as a whole, as the specification states it: the
\* Worker is in at most one iteration at a time, so that it never has two
\* invocations of run in progress.
C7_OneIteration ==
    \A w, t \in WorkerIds :
        (pc[w] \in IterationSites /\ pc[t] \in IterationSites) => w = t

C7_SingleWorkerOrdering ==
    []C7_StepOrder /\ [][C7_NextAfterReturn]_vars /\ []C7_OneIteration

\* C7: the order within an iteration and the order of the iterations of one
\* thread hold; the processing loop never overlaps two of its own
\* iterations, and two iterations of the Worker overlap only when one of
\* them was called by the program itself.
C7_Overlap ==
    \A w, t \in WorkerIds :
        (w # t /\ pc[w] \in IterationSites /\ pc[t] \in IterationSites) =>
            caller[w] = "program" \/ caller[t] = "program"

C7_Ordering ==
    []C7_StepOrder /\ [][C7_NextAfterReturn]_vars /\ []C7_Overlap

\* the loop has made one iteration and is about to acquire the next job,
\* while an iteration that the program called is at its invocation of run
C7_Witness ==
    \E w, t \in WorkerIds :
        /\ pc[w] = "queue_check" /\ trace[w] = Steps /\ Queue # <<>>
        /\ caller[w] = "_processing_loop"
        /\ pc[t] = "run" /\ caller[t] = "program"

\* C8: no write moves a job's status backwards in the lifecycle
\* REGISTERED -> WORKING -> COMPLETED.
Rank(status) ==
    CASE status = "REGISTERED" -> 0
      [] status = "WORKING" -> 1
      [] status = "COMPLETED" -> 2

C8_NoBackward ==
    \A j \in 1..Len(jobs) : Rank(jobs'[j].status) >= Rank(jobs[j].status)

C8_Lifecycle == [][C8_NoBackward]_vars

C8_Witness ==
    \E w \in WorkerIds :
        /\ Len(puts[w]) = 3
        /\ jobs[puts[w][3][1]].status = "COMPLETED"
        /\ Len(jobs) = MaxJobs

\* C9: a job that is COMPLETED holds the validated result of the run of the
\* iteration that completed it, and a job that holds a result is WORKING or
\* COMPLETED: an interrupted iteration leaves at worst "result written,
\* status still WORKING".
C9_ResultBeforeCompletion ==
    /\ \A j \in 1..Len(jobs) :
           /\ jobs[j].status = "COMPLETED" =>
                  jobs[j].result \in ServiceDetails.job_result_schema
           /\ jobs[j].result # None =>
                  jobs[j].status \in {"WORKING", "COMPLETED"}
    /\ \A w \in WorkerIds :
           (puts[w] # <<>> /\ puts[w][Len(puts[w])][3] = "COMPLETED") =>
               jobs[puts[w][Len(puts[w])][1]].result = run(ran[w][1][2])

\* the part of C9 about completed jobs alone
C9_CompletedHasResult ==
    /\ \A j \in 1..Len(jobs) :
           jobs[j].status = "COMPLETED" =>
               jobs[j].result \in ServiceDetails.job_result_schema
    /\ \A w \in WorkerIds :
           (puts[w] # <<>> /\ puts[w][Len(puts[w])][3] = "COMPLETED") =>
               jobs[puts[w][Len(puts[w])][1]].result = run(ran[w][1][2])

\* C10: the polling loop checks in only after a liveness probe that answered
\* alive, and once the server is no longer alive it ends without an error,
\* also when the server dies between the probe and the checkin.
C10_PollingEndsCleanly ==
    \A w \in WorkerIds :
        (ppc[w] \in {"done", "failed"} /\ ~poll_end_alive[w]) =>
            (ppc[w] = "done" /\ perr[w] = "none")

\* C11: is_queue_empty answers true exactly when the queue response holds an
\* empty list, and a round of the processing loop in which it answered true
\* goes straight back to the liveness check: no queue head or job details
\* are read, nothing is written to a job, and run is not called.
Outside == {"new", "absent", "loop", "queue_check", "done", "failed"}

C11_EmptyProbe ==
    \A w \in WorkerIds :
        (pc[w] = "queue_check" /\ pc'[w] \notin {"queue_check", "failed"}) =>
            /\ (queue_probe'[w] = "empty") <=> (Queue = <<>>)
            /\ queue_probe'[w] = "empty" =>
                   /\ pc'[w] = "loop"
                   /\ UNCHANGED <<jobs, job_id, job, parameters, results, hist>>

C11_EmptyRound ==
    /\ [][C11_EmptyProbe]_vars
    /\ [](\A w \in WorkerIds : queue_probe[w] = "empty" => pc[w] \in Outside)

C11_Witness ==
    \E w \in WorkerIds :
        queue_probe[w] = "empty" /\ pc[w] = "loop" /\ jobs # <<>>

\* C12: whenever the processing loop reads the id at the head of the queue
\* and the server answers, the queue holds a job at that read.
C12_HeadRead ==
    \A w \in WorkerIds :
        (pc[w] \in HeadSites /\ pc'[w] # pc[w] /\ err'[w] # "NetworkError") =>
            Queue # <<>>

C12_HeadReadNonEmpty == [][C12_HeadRead]_vars

\* C13: a loop ends only when the liveness check answers false or a call
\* fails; while the server is alive and every call succeeds no loop ends.
\* A call fails when a request is not answered 200 (NetworkError; the
\* validator's 400 surfaces as AttributeError) or when run raises.
CallFailures == {"NetworkError", "AttributeError", "RunError"}

C13_StopsOnlyOnLiveness ==
    \A w \in WorkerIds :
        /\ pc[w] = "failed" => err[w] \in CallFailures
        /\ ppc[w] = "failed" => perr[w] \in CallFailures

\* C14: before start is called neither loop of a constructed Worker runs:
\* neither has sent a request (the program may call run_iteration itself,
\* which is no loop); start(should_poll=True) starts both loops, the polling
\* loop at line 355 and then the processing loop at line 356;
\* start(should_poll=False) starts the processing loop only, and that
\* Worker never sends a checkin: its polling loop stays unstarted, and a
\* Worker whose polling loop is unstarted has sent no checkin.  (Only one
\* more call, start(should_poll=True), starts the polling loop afterwards;
\* that step sends no request and leaves the processing loop alone.)
C14_Started ==
    \A w \in WorkerIds :
        /\ polling[w] = "unset" =>
               /\ ppc[w] = "off" /\ ~checked_in[w]
               /\ queue_probe[w] = "none"
               /\ pc[w] \notin {"loop", "queue_check", "done"}
        /\ polling[w] = "yes" => ppc[w] # "off"
        /\ (polling[w] = "yes" /\ pc[w] = "new") => ENABLED Start(w)
        /\ polling[w] = "no" => pc[w] # "new"
        /\ ppc[w] = "off" => ~checked_in[w]

C14_StartStep ==
    \A w \in WorkerIds :
        /\ (polling[w] = "unset" /\ polling'[w] = "yes") =>
               /\ pc[w] = "new" /\ pc'[w] = "new" /\ ppc'[w] = "probe"
               /\ UNCHANGED <<server, checked_in>>
        /\ (polling[w] = "unset" /\ polling'[w] = "no") =>
               /\ pc[w] = "new" /\ pc'[w] = "loop" /\ ppc'[w] = "off"
               /\ UNCHANGED <<server, checked_in>>
        /\ (pc[w] = "new" /\ pc'[w] = "loop") =>
               /\ polling'[w] \in {"yes", "no"}
               /\ polling[w] = "yes" => UNCHANGED <<server, poll, marks>>
        /\ (pc[w] # "new" /\ ppc[w] = "off" /\ ppc'[w] # "off") =>
               /\ polling[w] = "no" /\ ppc'[w] = "probe"
               /\ UNCHANGED <<server, proc, locals, hist, marks>>

C14_StartSemantics == []C14_Started /\ [][C14_StartStep]_vars

C14_Witness ==
    \E w \in WorkerIds :
        /\ polling[w] = "no" /\ ppc[w] = "off" /\ IterationDone(w)
        /\ queue_probe[w] = "not empty"

\* ---------------------------------------- direct use of the job handles
\* A program that holds one job handle at a time and calls its properties,
\* and the operators of Client.new_service.  The handle is either client.py's _Job
\* (built by Client.current_job from fetched details) or models/job.py's Job
\* (built from a job id).  Another client of the server may change the job
\* between any two requests.  new_service needs no handle: it is called
\* under SpecApi.
HTTP_STATUS_CODE_OK == 200

StatusCodes == {HTTP_OK, HTTP_CREATED, HTTP_BAD_REQUEST, HTTP_SERVER_ERROR}
Addresses == {"http://localhost", "http://topchef"}
ServiceIds == {"service-1", "service-2"}
ResultValues == {None} \cup {<<r>> : r \in 0..MaxParam}
StatusInputs == ValidStatuses \cup {"FAILED", "working", ""}

\* new_service that takes every 2xx answer for a created service
new_service_accepts_ok(cls, address, status_code, service_id) ==
    IF status_code \notin {HTTP_OK, HTTP_CREATED}
    THEN [err |-> "NetworkError", made |-> NoWorker]
    ELSE IF cls \notin WorkerClasses
    THEN [err |-> "TypeError", made |-> NoWorker]
    ELSE [err |-> "none",
          made |-> [cls |-> cls, address |-> address, id |-> service_id]]

\* Client.new_service, from the status code and the id of the response;
\* cls(address, service_id) of the abstract class raises TypeError, after
\* the service was created
new_service(cls, address, status_code, service_id) ==
    IF status_code # HTTP_CREATED
    THEN [err |-> "NetworkError", made |-> NoWorker]
    ELSE IF cls \notin WorkerClasses
    THEN [err |-> "TypeError", made |-> NoWorker]
    ELSE [err |-> "none",
          made |-> [cls |-> cls, address |-> address, id |-> service_id]]

\* job_details getter that does not look at the status code
job_details_error_unchecked(status_code) == "none"

\* Job.job_details getter: the error raised for the GET's response status
job_details_error(status_code) ==
    IF status_code # HTTP_STATUS_CODE_OK THEN "NetworkError" ELSE "none"

\* Job.job_details setter: the error raised for the PUT's response status
set_job_details_error(status_code) ==
    IF status_code # HTTP_STATUS_CODE_OK THEN "NetworkError" ELSE "none"

\* result setter that also puts the job back in the REGISTERED state
with_result_resets_status(job_details, new_result) ==
    [job_details EXCEPT !.result = new_result, !.status = "REGISTERED"]

\* Job.result setter: job_details['result'] = new_result
with_result(job_details, new_result) ==
    [job_details EXCEPT !.result = new_result]

\* Job.is_complete
is_complete(status) == status = "COMPLETED"

\* _Job.status setter that accepts every value
status_rejected_late(new_status) == FALSE

\* _Job.status setter: is the value refused before anything is stored
status_rejected(new_status) == new_status \notin ValidStatuses

\* The state in which a call begins: the records of the last call are cleared.
Call(op) ==
    [hc EXCEPT !.op = op, !.status_arg = "", !.result_arg = None, !.head = 0,
               !.service_arg = NoService, !.pre = hc.dict, !.fetched = NoJob,
               !.reqs = <<>>, !.body = NoJob, !.ret = <<>>, !.err = "none",
               !.at_read = NoJob, !.made = NoWorker, !.instance = None,
               !.schema = {}, !.strategy = "", !.uuid = "", !.library = "",
               !.made_job = NoJobHandle, !.overwrote = NoJob,
               !.objects = NoCall.objects, !.factory = "",
               !.raised = [endpoint |-> "", status_code |-> 0]]

\* The server applies a PUT of the job details when it answers 200.
Put(status_code, body) ==
    IF status_code = HTTP_OK THEN [jobs EXCEPT ![body.id] = body] ELSE jobs

\* PUT {address}/jobs/{i} with a body: the server stores the body as the job
\* of that endpoint, whatever id the body names
PutAt(status_code, i, body) ==
    IF status_code = HTTP_OK THEN [jobs EXCEPT ![i] = body] ELSE jobs

\* GET {address}/jobs/{i}: a server that is up knows no job it was not given
JobRespond(ok, i) ==
    IF ~(alive /\ ok) THEN HTTP_SERVER_ERROR
    ELSE IF i \notin 1..Len(jobs) THEN HTTP_NOT_FOUND
    ELSE HTTP_OK

InitCalls ==
    /\ alive = TRUE
    /\ \E s \in ValidStatuses, r \in ResultValues :
           jobs = <<[id |-> 1, status |-> s, parameters |-> <<1>>, result |-> r]>>
    /\ queue_statuses = {"REGISTERED"}
    /\ pc = [w \in WorkerIds |-> "absent"]
    /\ err = [w \in WorkerIds |-> "none"]
    /\ job_id = [w \in WorkerIds |-> 0]
    /\ job = [w \in WorkerIds |-> NoJob]
    /\ parameters = [w \in WorkerIds |-> None]
    /\ results = [w \in WorkerIds |-> None]
    /\ schema = [w \in WorkerIds |-> {}]
    /\ ppc = [w \in WorkerIds |-> "off"]
    /\ perr = [w \in WorkerIds |-> "none"]
    /\ poll_end_alive = [w \in WorkerIds |-> TRUE]
    /\ acq = [w \in WorkerIds |-> NoJob]
    /\ heads = [w \in WorkerIds |-> <<>>]
    /\ puts = [w \in WorkerIds |-> <<>>]
    /\ trace = [w \in WorkerIds |-> <<>>]
    /\ ran = [w \in WorkerIds |-> <<>>]
    /\ vresp = [w \in WorkerIds |-> <<>>]
    /\ queue_probe = [w \in WorkerIds |-> "none"]
    /\ polling = [w \in WorkerIds |-> "unset"]
    /\ checked_in = [w \in WorkerIds |-> FALSE]
    /\ worker_class = [w \in WorkerIds |-> "ClientForTesting"]
    /\ caller = [w \in WorkerIds |-> "none"]
    /\ direct = 0
    /\ hc = NoCall
    /\ runs = [w \in WorkerIds |-> <<>>]
    /\ registry = <<"service-1">>
    /\ it = NoGetter

workers == <<proc, locals, poll, hist, marks, runs, worker_class>>

\* PUT {address}/jobs/{id} by another client of the server
OtherWriter(i, s, r) ==
    /\ alive
    /\ i \in 1..Len(jobs)
    /\ jobs' = [jobs EXCEPT ![i].status = s, ![i].result = r]
    /\ jobs' # jobs
    /\ UNCHANGED <<alive, queue_statuses, workers, hc, iteration>>

\* The endpoint each gateway operation calls, below the server's address
endpoint(op) ==
    IF op = "new_service" THEN "/services"
    ELSE IF op \in {"_service_details", "check_in_to_server"}
    THEN "/services/{id}"
    ELSE IF op = "queue" THEN "/services/{id}/queue"
    ELSE IF op \in {"job_details", "_update"} THEN "/jobs/{id}"
    ELSE "/validator"

NoMessage == [endpoint |-> "", status_code |-> 0]

\* The endpoint and the status code that the NetworkError of each operation
\* carries in its arguments: new_service and _json_get format both into
\* the message; check_in_to_server formats the service id and the address;
\* _update the job dict and the endpoint; the remote validator passes the
\* status code alone; validate_schema of client.py leaves the %s of its
\* message unfilled.
network_error(op, status_code) ==
    IF op \in {"new_service", "_service_details", "queue", "job_details"}
    THEN [endpoint |-> endpoint(op), status_code |-> status_code]
    ELSE IF op \in {"check_in_to_server", "validate_schema"} THEN NoMessage
    ELSE IF op = "_update" THEN [endpoint |-> endpoint(op), status_code |-> 0]
    ELSE [endpoint |-> "", status_code |-> status_code]

\* What a call's error carries
carried(op, e, status_code) ==
    IF e = "NetworkError" THEN network_error(op, status_code) ELSE NoMessage

\* Client.new_service
NewService(cls, address) ==
    /\ hc.pc = "idle"
    /\ \E status_code \in (IF alive THEN StatusCodes ELSE {HTTP_SERVER_ERROR}),
          service_id \in ServiceIds :
           LET r == new_service(cls, address, status_code, service_id) IN
           hc' = [Call("new_service") EXCEPT
                     !.service_arg = [cls |-> cls, address |-> address,
                                      status_code |-> status_code,
                                      id |-> service_id],
                     !.reqs = <<<<"POST", status_code>>>>,
                     !.err = r.err, !.made = r.made,
                     !.raised = carried("new_service", r.err, status_code)]
    /\ UNCHANGED <<server, workers, iteration>>

\* Client.current_job, line 253: job_id = self._first_job_id_in_queue, the
\* GET of the queue and ['data'][0]['id'] of its answer
ClientJob_first_job_id_in_queue ==
    /\ hc.pc = "idle"
    /\ \E ok \in BOOLEAN :
           LET sc == Respond(ok)
               e == json_get(sc)
               c == [Call("current_job") EXCEPT !.reqs = <<<<"GET", sc>>>>] IN
           hc' = IF e # "none"
                 THEN [c EXCEPT !.err = e,
                                !.raised = carried("queue", e, sc)]
                 ELSE IF Queue = <<>> THEN [c EXCEPT !.err = "IndexError"]
                 ELSE [c EXCEPT !.head = Head(Queue), !.pc = "job"]
    /\ UNCHANGED <<server, workers, iteration>>

\* Client.current_job, lines 255-259: the GET of the job read from the queue
\* and _Job(self.address, the fetched job details)
ClientJob_init ==
    /\ hc.pc = "job"
    /\ \E ok \in BOOLEAN :
           LET sc == JobRespond(ok, hc.head)
               e == json_get(sc)
               c == [hc EXCEPT !.pc = "idle",
                               !.reqs = Append(@, <<"GET", sc>>)] IN
           hc' = IF e # "none"
                 THEN [c EXCEPT !.err = e,
                                !.raised = carried("job_details", e, sc)]
                 ELSE [c EXCEPT !.kind = "_Job", !.job_id = hc.head,
                                !.dict = jobs[hc.head],
                                !.fetched = jobs[hc.head]]
    /\ UNCHANGED <<server, workers, iteration>>

\* _Job.status getter
ClientJob_status_get ==
    /\ hc.pc = "idle" /\ hc.kind = "_Job"
    /\ hc' = [Call("get_status") EXCEPT !.ret = <<hc.dict.status>>,
                                        !.at_read = jobs[hc.job_id]]
    /\ UNCHANGED <<server, workers, iteration>>

\* _Job.result getter
ClientJob_result_get ==
    /\ hc.pc = "idle" /\ hc.kind = "_Job"
    /\ hc' = [Call("get_result") EXCEPT !.ret = <<hc.dict.result>>,
                                        !.at_read = jobs[hc.job_id]]
    /\ UNCHANGED <<server, workers, iteration>>

\* A setter that puts the old record back when its PUT is refused
job_dict_after_rolled_back(before, assigned, status_code) ==
    IF status_code = HTTP_OK THEN assigned ELSE before

\* _Job._job_dict when a setter ends: the field is assigned before _update
\* is called (lines 446, 467), and _update assigns nothing.
job_dict_after(before, assigned, status_code) == assigned

\* _Job.status setter and the _update it ends with
ClientJob_status_set(new_status) ==
    /\ hc.pc = "idle" /\ hc.kind = "_Job"
    /\ LET c == [Call("set_status") EXCEPT !.status_arg = new_status] IN
       IF status_rejected(new_status)
       THEN /\ hc' = [c EXCEPT !.err = "ValueError"]
            /\ UNCHANGED jobs
       ELSE \E ok \in BOOLEAN :
                LET sc == Respond(ok)
                    d == [hc.dict EXCEPT !.status = new_status] IN
                /\ hc' = [c EXCEPT !.dict = job_dict_after(hc.dict, d, sc),
                                   !.body = d,
                                   !.overwrote = jobs[d.id],
                                   !.reqs = <<<<"PUT", sc>>>>,
                                   !.err = update(sc)]
                /\ jobs' = Put(sc, d)
    /\ UNCHANGED <<alive, queue_statuses, workers, iteration>>

\* _Job.result setter and the _update it ends with
ClientJob_result_set(new_result) ==
    /\ hc.pc = "idle" /\ hc.kind = "_Job"
    /\ \E ok \in BOOLEAN :
           LET sc == Respond(ok)
               d == [hc.dict EXCEPT !.result = new_result] IN
           /\ hc' = [Call("set_result") EXCEPT
                         !.result_arg = new_result,
                         !.dict = job_dict_after(hc.dict, d, sc), !.body = d,
                         !.overwrote = jobs[d.id],
                         !.reqs = <<<<"PUT", sc>>>>, !.err = update(sc)]
           /\ jobs' = Put(sc, d)
    /\ UNCHANGED <<alive, queue_statuses, workers, iteration>>

\* Job(topchef_url, job_id): no request is sent
ModelJob_init(i) ==
    /\ hc.pc = "idle"
    /\ i \in 1..Len(jobs)
    /\ hc' = [Call("Job") EXCEPT !.kind = "Job", !.job_id = i,
                                 !.dict = NoJob, !.pre = NoJob]
    /\ UNCHANGED <<server, workers, iteration>>

\* Job.status, Job.result and Job.is_complete: each reads job_details
Reads == {"get_status", "get_result", "is_complete"}

ModelJob_get(op) ==
    /\ hc.pc = "idle" /\ hc.kind = "Job"
    /\ \E ok \in BOOLEAN :
           LET sc == Respond(ok)
               e == job_details_error(sc)
               d == jobs[hc.job_id]
               c == [Call(op) EXCEPT !.reqs = <<<<"GET", sc>>>>] IN
           hc' = IF e # "none" THEN [c EXCEPT !.err = e]
                 ELSE [c EXCEPT !.fetched = d, !.at_read = d,
                                !.ret = IF op = "get_status" THEN <<d.status>>
                                        ELSE IF op = "get_result" THEN <<d.result>>
                                        ELSE <<is_complete(d.status)>>]
    /\ UNCHANGED <<server, workers, iteration>>

\* Job.result setter, line 55: job_details = self.job_details
ModelJob_result_set_get(new_result) ==
    /\ hc.pc = "idle" /\ hc.kind = "Job"
    /\ \E ok \in BOOLEAN :
           LET sc == Respond(ok)
               e == job_details_error(sc)
               c == [Call("set_result") EXCEPT !.result_arg = new_result,
                                              !.reqs = <<<<"GET", sc>>>>] IN
           hc' = IF e # "none" THEN [c EXCEPT !.err = e]
                 ELSE [c EXCEPT !.fetched = jobs[hc.job_id], !.pc = "put"]
    /\ UNCHANGED <<server, workers, iteration>>

\* Job.result setter, lines 56-57: self.job_details = job_details
ModelJob_result_set_put ==
    /\ hc.pc = "put"
    /\ \E ok \in BOOLEAN :
           LET sc == Respond(ok)
               d == with_result(hc.fetched, hc.result_arg) IN
           /\ hc' = [hc EXCEPT !.pc = "idle", !.body = d,
                               !.overwrote = jobs[hc.job_id],
                               !.reqs = Append(@, <<"PUT", sc>>),
                               !.err = set_job_details_error(sc)]
           /\ jobs' = PutAt(sc, hc.job_id, d)
    /\ UNCHANGED <<alive, queue_statuses, workers, iteration>>

\* Job.job_details setter called by the program: one PUT of the details
\* given to the endpoint of the handle's job, with no GET before it; the
\* details may name another id than the handle's
ModelJob_job_details_set(new_job_details) ==
    /\ hc.pc = "idle" /\ hc.kind = "Job"
    /\ \E ok \in BOOLEAN :
           LET sc == Respond(ok) IN
           /\ hc' = [Call("set_job_details") EXCEPT
                         !.body = new_job_details,
                         !.overwrote = jobs[hc.job_id],
                         !.reqs = <<<<"PUT", sc>>>>,
                         !.err = set_job_details_error(sc)]
           /\ jobs' = PutAt(sc, hc.job_id, new_job_details)
    /\ UNCHANGED <<alive, queue_statuses, workers, iteration>>

\* The job details a program assigns to Job.job_details
JobDetailsInputs ==
    {[id |-> i, status |-> "WORKING", parameters |-> <<1>>, result |-> None] :
         i \in 1..MaxJobs}
    \cup {[id |-> i, status |-> "COMPLETED", parameters |-> <<1>>,
           result |-> <<MaxParam>>] : i \in 1..MaxJobs}

NextCalls ==
    \/ \E i \in 1..MaxJobs, s \in ValidStatuses, r \in ResultValues :
           OtherWriter(i, s, r)
    \/ ServerDown
    \/ ServerUp
    \/ ClientJob_first_job_id_in_queue
    \/ ClientJob_init
    \/ ClientJob_status_get
    \/ ClientJob_result_get
    \/ \E new_status \in StatusInputs : ClientJob_status_set(new_status)
    \/ \E new_result \in ResultValues : ClientJob_result_set(new_result)
    \/ \E i \in 1..MaxJobs : ModelJob_init(i)
    \/ \E op \in Reads : ModelJob_get(op)
    \/ \E new_result \in ResultValues : ModelJob_result_set_get(new_result)
    \/ ModelJob_result_set_put
    \/ \E new_job_details \in JobDetailsInputs :
           ModelJob_job_details_set(new_job_details)

SpecCalls == InitCalls /\ [][NextCalls]_vars

\* --------------------------------------------- claims about direct calls
Ok(method) == <<method, HTTP_OK>>

\* C15: new_service called on a Worker class (a class that implements run)
\* and answered 201 with a service id returns a Worker of the calling class
\* bound to that id and to the given address; answered any other status code
\* it raises NetworkError and constructs no Worker, whatever the class.  (On
\* the abstract base no Worker exists: the 201 ends in TypeError.)
C15_NewService ==
    hc.op = "new_service" =>
        LET a == hc.service_arg IN
        /\ (a.status_code = HTTP_CREATED /\ a.cls \in WorkerClasses) =>
               /\ hc.err = "none"
               /\ hc.made.cls = a.cls
               /\ hc.made.id = a.id
               /\ hc.made.address = a.address
        /\ (a.status_code = HTTP_CREATED /\ a.cls \notin WorkerClasses) =>
               hc.err = "TypeError" /\ hc.made = NoWorker
        /\ a.status_code # HTTP_CREATED =>
               hc.err = "NetworkError" /\ hc.made = NoWorker

C15_Witness ==
    /\ hc.op = "new_service"
    /\ hc.service_arg.status_code = HTTP_CREATED
    /\ hc.made.cls = "ClientForTesting"
    /\ hc.made.id = "service-2"

\* C16: Job.result = r sends one GET of the job details and then one PUT;
\* the PUT's body is the details the GET returned with the result replaced
\* by r and every other field as fetched.
JobResultSet == hc.kind = "Job" /\ hc.op = "set_result" /\ hc.pc = "idle"

C16_ReadModifyWrite ==
    /\ hc.pc = "put" => hc.reqs = <<Ok("GET")>> /\ hc.body = NoJob
    /\ (JobResultSet /\ hc.err = "none") =>
           /\ hc.reqs = <<Ok("GET"), Ok("PUT")>>
           /\ hc.body.result = hc.result_arg
           /\ hc.body.id = hc.fetched.id
           /\ hc.body.status = hc.fetched.status
           /\ hc.body.parameters = hc.fetched.parameters

C16_Witness ==
    /\ JobResultSet /\ hc.err = "none"
    /\ hc.fetched.status = "WORKING"
    /\ hc.fetched.result # hc.result_arg
    /\ jobs[hc.job_id] = hc.body

\* C17: when the GET of Job.result = r is not answered 200 the assignment
\* raises NetworkError, sends no PUT and leaves the server's jobs as they
\* were; when the PUT is not answered 200 it raises NetworkError.
C17_Errors ==
    JobResultSet =>
        /\ hc.reqs[1][2] # HTTP_OK =>
               hc.err = "NetworkError" /\ Len(hc.reqs) = 1 /\ hc.body = NoJob
        /\ (Len(hc.reqs) = 2 /\ hc.reqs[2][2] # HTTP_OK) =>
               hc.err = "NetworkError"

C17_GetLeavesServer ==
    (hc'.kind = "Job" /\ hc'.op = "set_result" /\ Len(hc'.reqs) = 1
        /\ hc' # hc) => jobs' = jobs

C17_SetterErrors == []C17_Errors /\ [][C17_GetLeavesServer]_vars

C17_Witness ==
    /\ JobResultSet
    /\ hc.reqs = <<<<"GET", HTTP_SERVER_ERROR>>>>
    /\ hc.err = "NetworkError"
    /\ alive

\* C18: a read of a job handle's status, result or is_complete sends one GET
\* and returns the value the server holds at that moment.
C18_FreshReads ==
    (hc.op \in Reads /\ hc.err = "none") =>
        /\ hc.reqs = <<Ok("GET")>>
        /\ hc.op = "get_status" => hc.ret = <<hc.at_read.status>>
        /\ hc.op = "get_result" => hc.ret = <<hc.at_read.result>>
        /\ hc.op = "is_complete" => hc.ret = <<hc.at_read.status = "COMPLETED">>

\* C19: after a job handle's status is set to REGISTERED, WORKING or
\* COMPLETED the handle's status reads back as that value, and the
\* assignment sent one GET and one PUT.
C19_StatusRoundTrip ==
    (hc.op = "set_status" /\ hc.status_arg \in ValidStatuses
        /\ hc.err = "none") =>
        /\ hc.dict.status = hc.status_arg
        /\ hc.reqs = <<Ok("GET"), Ok("PUT")>>

\* C20: assigning a value outside REGISTERED, WORKING, COMPLETED to a job
\* handle's status raises ValueError, sends no request, and leaves the
\* handle's own job details and the server's jobs as they were.
C20_Rejected ==
    (hc.op = "set_status" /\ hc.status_arg \notin ValidStatuses) =>
        /\ hc.err = "ValueError"
        /\ hc.reqs = <<>> /\ hc.body = NoJob
        /\ hc.dict = hc.pre

C20_NoWrite ==
    (hc'.op = "set_status" /\ hc'.status_arg \notin ValidStatuses
        /\ hc' # hc) => jobs' = jobs

C20_InvalidStatus == []C20_Rejected /\ [][C20_NoWrite]_vars

C20_Witness ==
    /\ hc.op = "set_status" /\ hc.status_arg = "FAILED"
    /\ hc.err = "ValueError"
    /\ hc.dict.status = "WORKING"
    /\ jobs[hc.job_id].status = "COMPLETED"

\* C27: a write through a job handle is a read-modify-write without a guard:
\* the PUT carries the details as the writer read them, with one field
\* changed, and the server replaces the job with that body whatever it
\* holds by then.  With a second writer, a status it committed between the
\* read and the PUT is overwritten.
Written ==
    /\ hc.op \in {"set_result", "set_status", "set_job_details"}
    /\ hc.pc = "idle"
    /\ hc.err = "none" /\ hc.body # NoJob

C27_StaleBody ==
    Written =>
        /\ (hc.kind = "Job" /\ hc.op = "set_result") =>
               hc.body = [hc.fetched EXCEPT !.result = hc.result_arg]
        /\ (hc.kind = "_Job" /\ hc.op = "set_result") =>
               hc.body = [hc.pre EXCEPT !.result = hc.result_arg]
        /\ (hc.kind = "_Job" /\ hc.op = "set_status") =>
               hc.body = [hc.pre EXCEPT !.status = hc.status_arg]
        /\ hc.op = "set_job_details" =>
               /\ hc.kind = "Job" /\ hc.body \in JobDetailsInputs
               /\ hc.fetched = NoJob /\ hc.reqs = <<Ok("PUT")>>

\* the job a handle's PUT is sent to: Job uses its job_id, _Job the id of
\* the record it holds
PutTarget(h) == IF h.kind = "Job" THEN h.job_id ELSE h.body.id

C27_PutReplaces ==
    (hc' # hc /\ hc'.op \in {"set_result", "set_status", "set_job_details"}
        /\ hc'.pc = "idle" /\ hc'.err = "none" /\ hc'.body # NoJob) =>
        /\ hc'.overwrote = jobs[PutTarget(hc')]
        /\ jobs'[PutTarget(hc')] = hc'.body

C27_Unguarded == []C27_StaleBody /\ [][C27_PutReplaces]_vars

C27_LostUpdate ==
    /\ Written /\ hc.kind = "Job" /\ hc.op = "set_result"
    /\ hc.fetched.status = "REGISTERED"
    /\ hc.overwrote.status = "WORKING"
    /\ jobs[hc.job_id].status = "REGISTERED"

\* What the processing loop reads or writes: the server with its jobs, the
\* processing thread and its iteration, and the record of the writes and
\* of the invocations of run (puts, ran, runs).
ProcVars == <<server, proc, locals, hist, runs, queue_probe, calls>>
\* What the polling loop reads or writes besides the server's liveness
PollVars == <<ppc, perr, poll_end_alive, checked_in, polling>>

\* Line 356, processing_thread.start(), as far as the processing thread goes
ProcessingStarts(w) ==
    /\ pc[w] = "new"
    /\ pc' = [pc EXCEPT ![w] = "loop"]
    /\ UNCHANGED <<server, err, locals, hist, runs, queue_probe, calls>>

\* The processing loop running alone: the server, the start of the
\* processing thread, the loop and its iterations.  No step of it reads a
\* variable of the polling loop.
LoopAlone ==
    \/ Environment
    \/ \E w \in WorkerIds : ProcessingStarts(w)
    \/ ProcessingLoop
    \/ Iteration

\* The polling thread and the calls that start it
PollingAlone ==
    \/ \E w \in WorkerIds : StartPolling(w)
    \/ \E w \in WorkerIds : Start(w)
    \/ \E w \in WorkerIds : StartAgain(w)
    \/ PollingLoop

\* C29: whatever the polling loop does and however the two loops
\* interleave, every change of the server's jobs, of the processing thread
\* or of the sequence of job writes and run invocations is a step of the
\* processing loop running alone, so that this sequence is one of the
\* processing loop alone; a step of the polling loop changes none of them
\* (it only probes and checks in), and nothing but the polling thread and
\* start changes what the polling loop writes.
C29_LoopIndependence ==
    [][LoopAlone]_ProcVars /\ [][PollingAlone]_PollVars

C29_Witness ==
    \E w \in WorkerIds :
        /\ polling[w] = "yes" /\ checked_in[w]
        /\ ppc[w] = "failed"
        /\ IterationDone(w) /\ pc[w] = "loop"

\* C30, the error: a thread holds an error exactly when the call it was in
\* has failed.
C30_Raised ==
    \A w \in WorkerIds : err[w] # "none" <=> pc[w] = "failed"

\* C30, the thread: an error raised in an iteration is caught by nothing in
\* the Worker.  The processing loop that raised it stays ended with that
\* error; the iteration that raised it sends no request afterwards: it
\* reads no queue head, acquires no job, calls run no more and writes
\* nothing.
C30_Stopped ==
    \A w \in WorkerIds :
        pc[w] = "failed" =>
            /\ UNCHANGED <<acq[w], heads[w], puts[w], trace[w], ran[w],
                           vresp[w], runs[w]>>
            /\ caller[w] # "program" =>
                   /\ pc'[w] = "failed" /\ err'[w] = err[w]
                   /\ UNCHANGED <<job_id[w], job[w]>>
            /\ caller[w] = "program" => pc'[w] \in {"failed", "program"}

\* C30, the Worker, as the specification states it: once an iteration of
\* the processing loop has raised an error, the Worker acquires no job and
\* writes no job.
C30_WorkerStopped ==
    (\E w \in WorkerIds : pc[w] = "failed" /\ caller[w] = "_processing_loop") =>
        /\ \A t \in WorkerIds : acq'[t] \in {acq[t], NoJob}
        /\ \A i \in 1..Len(jobs) : jobs'[i] = jobs[i]

C30_WorkerNeverAcquires ==
    []C30_Raised /\ [][C30_Stopped]_vars /\ [][C30_WorkerStopped]_vars

\* C30: errors end the iteration and the processing loop, for good; the
\* Worker itself is not disabled: an iteration that the program calls
\* acquires and writes jobs as before.
C30_ErrorsStopLoop == []C30_Raised /\ [][C30_Stopped]_vars

\* the processing loop has ended with the error of run, and an iteration
\* that the program called has completed the job the loop left WORKING
C30_Witness ==
    \E w, t \in WorkerIds :
        /\ pc[w] = "failed" /\ err[w] = "RunError"
        /\ caller[w] = "_processing_loop"
        /\ puts[w] = <<<<1, "status", "WORKING">>>>
        /\ caller[t] = "program" /\ IterationDone(t)
        /\ jobs[1].status = "COMPLETED"

\* C37: when the PUT of a _Job setter is answered with another status than
\* 200, the setter raises NetworkError, the server's job is as it was, and
\* the handle's record holds the new value, which is what the getters of
\* the handle return from then on.
SetterFailed ==
    /\ hc.kind = "_Job" /\ hc.op \in {"set_status", "set_result"}
    /\ hc.err = "NetworkError"

C37_LocalKept ==
    /\ SetterFailed =>
           /\ hc.reqs[1][2] # HTTP_OK
           /\ hc.op = "set_status" =>
                  hc.dict = [hc.pre EXCEPT !.status = hc.status_arg]
           /\ hc.op = "set_result" =>
                  hc.dict = [hc.pre EXCEPT !.result = hc.result_arg]
    /\ (hc.kind = "_Job" /\ hc.op = "get_status") =>
           hc.ret = <<hc.dict.status>>
    /\ (hc.kind = "_Job" /\ hc.op = "get_result") =>
           hc.ret = <<hc.dict.result>>

C37_ServerKept ==
    (hc' # hc /\ hc'.kind = "_Job"
        /\ hc'.op \in {"set_status", "set_result"}
        /\ hc'.err = "NetworkError") => jobs' = jobs

C37_ReadAfter ==
    (SetterFailed /\ hc'.kind = "_Job"
        /\ hc'.op \in {"get_status", "get_result"}) =>
        hc'.ret = IF hc'.op = "get_status" THEN <<hc.dict.status>>
                  ELSE <<hc.dict.result>>

C37_NoRollback ==
    []C37_LocalKept /\ [][C37_ServerKept /\ C37_ReadAfter]_vars

C37_Witness ==
    /\ SetterFailed /\ hc.op = "set_result" /\ alive
    /\ hc.result_arg # hc.pre.result
    /\ hc.dict.result = hc.result_arg
    /\ jobs[hc.job_id].result = hc.pre.result

\* C35: the processing loop of a Worker calls run at most once for each job
\* id, and the job it acquires from the queue head is never a COMPLETED one
\* nor one it has already called run for.
C35_RunOnce ==
    \A w \in WorkerIds :
        \A i, j \in 1..Len(runs[w]) : i # j => runs[w][i] # runs[w][j]

C35_Acquire ==
    \A w \in WorkerIds :
        (acq'[w] # acq[w] /\ acq'[w] # NoJob) =>
            /\ acq'[w].status # "COMPLETED"
            /\ jobs[acq'[w].id].status # "COMPLETED"
            /\ \A i \in 1..Len(runs[w]) : runs[w][i] # acq'[w].id

C35_AtMostOnce == []C35_RunOnce /\ [][C35_Acquire]_vars

C35_Witness ==
    \E w \in WorkerIds :
        /\ runs[w] = <<1, 2>>
        /\ IterationDone(w)
        /\ \A i \in 1..Len(jobs) : jobs[i].status = "COMPLETED"
        /\ err[w] = "none" /\ polling[w] # "unset"

\* C36: the step at which the polling loop ends with an error leaves the
\* processing loop where it is and without an error, and the other way
\* round; an ended polling loop sends no further checkin; a processing loop
\* at the top of its loop can go on although the polling loop has failed,
\* and a polling loop about to check in can do so although the processing
\* loop has failed.
C36_GoesOn ==
    \A w \in WorkerIds :
        /\ (ppc[w] = "failed" /\ pc[w] = "loop") => ENABLED ProbeAlive(w)
        /\ (pc[w] = "failed" /\ ppc[w] = "checkin") => ENABLED CheckIn(w)

C36_FailureStep ==
    \A w \in WorkerIds :
        /\ (ppc[w] # "failed" /\ ppc'[w] = "failed") =>
               /\ pc'[w] = pc[w] /\ err'[w] = err[w]
               /\ perr'[w] = "NetworkError"
        /\ (pc[w] \notin {"new", "failed"} /\ pc'[w] = "failed") =>
               ppc'[w] = ppc[w] /\ perr'[w] = perr[w]
        /\ ppc[w] = "failed" =>
               /\ ppc'[w] = "failed"
               /\ checked_in'[w] = checked_in[w]

C36_LoopsFailApart == []C36_GoesOn /\ [][C36_FailureStep]_vars

C36_Witness ==
    \E w \in WorkerIds :
        /\ ppc[w] = "failed" /\ perr[w] = "NetworkError"
        /\ poll_end_alive[w] /\ alive
        /\ runs[w] = <<1, 2>>
        /\ jobs[2].status = "COMPLETED"
        /\ pc[w] = "queue_check" /\ err[w] = "none"

\* ------------------------------------------------ two Workers, one service
\* Two Workers are constructed for the same service id and both are started
\* with should_poll=False; the server stays up, single requests may fail.
Init2 ==
    /\ alive = TRUE
    /\ jobs = <<>>
    /\ queue_statuses \in {{"REGISTERED"}, {"REGISTERED", "WORKING"}}
    /\ pc = [w \in WorkerIds |-> "new"]
    /\ err = [w \in WorkerIds |-> "none"]
    /\ job_id = [w \in WorkerIds |-> 0]
    /\ job = [w \in WorkerIds |-> NoJob]
    /\ parameters = [w \in WorkerIds |-> None]
    /\ results = [w \in WorkerIds |-> None]
    /\ schema = [w \in WorkerIds |-> {}]
    /\ ppc = [w \in WorkerIds |-> "off"]
    /\ perr = [w \in WorkerIds |-> "none"]
    /\ poll_end_alive = [w \in WorkerIds |-> TRUE]
    /\ acq = [w \in WorkerIds |-> NoJob]
    /\ heads = [w \in WorkerIds |-> <<>>]
    /\ puts = [w \in WorkerIds |-> <<>>]
    /\ trace = [w \in WorkerIds |-> <<>>]
    /\ ran = [w \in WorkerIds |-> <<>>]
    /\ vresp = [w \in WorkerIds |-> <<>>]
    /\ queue_probe = [w \in WorkerIds |-> "none"]
    /\ polling = [w \in WorkerIds |-> "unset"]
    /\ checked_in = [w \in WorkerIds |-> FALSE]
    /\ worker_class = [w \in WorkerIds |-> "ClientForTesting"]
    /\ caller = [w \in WorkerIds |-> "none"]
    /\ direct = 0
    /\ hc = NoCall
    /\ runs = [w \in WorkerIds |-> <<>>]
    /\ registry = <<"service-1">>
    /\ it = NoGetter

\* self.run(parameters) of one of the two Workers; the history of the runs
\* of all iterations is not kept here.
RunOfTwo(w) == RunStep(w, FALSE)

Next2 ==
    \/ \E p \in Params : Submit(p)
    \/ \E w \in WorkerIds :
           \/ StartProcessing(w)
           \/ ProbeAlive(w)
           \/ ProbeQueue(w)
           \/ FirstJobIdInQueue(w)
           \/ CurrentJob(w)
           \/ JobSchema(w)
           \/ ValidateSchema(w)
           \/ SetStatus(w)
           \/ RunOfTwo(w)
           \/ SetResult(w)

Spec2 == Init2 /\ [][Next2]_vars

\* C28: of two Workers bound to the same service no job is acquired by
\* both, run by both or written by both.
Ids(h) == {h[i][1] : i \in 1..Len(h)}

Answers == IF alive THEN StatusCodes ELSE {HTTP_SERVER_ERROR}

\* POST {address}/validator: 200 only for a match, 400 only for a mismatch.
ValidatorAnswers(instance, sch) ==
    IF ~alive THEN {HTTP_SERVER_ERROR}
    ELSE {IF instance \in sch THEN HTTP_OK ELSE HTTP_BAD_REQUEST,
          HTTP_CREATED, HTTP_SERVER_ERROR}

Instances == {<<p>> : p \in Params}
Schemas == {ServiceDetails.job_registration_schema,
            ServiceDetails.job_result_schema}

\* The validator argument of assert_instance_matches_schema: None, or one of
\* the strategies of the unit test.
Strategies == {"None", "AlwaysTrueValidator", "AlwaysFalseValidator"}

\* AlwaysTrueValidator / AlwaysFalseValidator .does_instance_match_schema
does_instance_match_schema(strategy, instance, sch) ==
    strategy = "AlwaysTrueValidator"

\* _analyze_validation_response that takes every other status for a mismatch
analyze_validation_response_lenient(status_code) ==
    IF status_code = HTTP_OK
    THEN [err |-> "none", result |-> TRUE]
    ELSE [err |-> "none", result |-> FALSE]

\* RemoteSchemaValidator._analyze_validation_response
analyze_validation_response(status_code) ==
    IF status_code = HTTP_OK
    THEN [err |-> "none", result |-> TRUE]
    ELSE IF status_code = HTTP_BAD_REQUEST
    THEN [err |-> "none", result |-> FALSE]
    ELSE [err |-> "NetworkError", result |-> FALSE]

\* assert_instance_matches_schema that raises on a match
assert_instance_matches_schema_inverted(result) ==
    IF result THEN "ProcessingError" ELSE "none"

\* Validator.assert_instance_matches_schema, lines 46-47
assert_instance_matches_schema(result) ==
    IF ~result THEN "ProcessingError" ELSE "none"

\* A _get_request_body that moves the content out of the instance it was
\* given into the body
get_request_body_draining(objects) ==
    [objects EXCEPT !.body = [object |-> objects.instance,
                              schema |-> objects.schema],
                    !.instance = None]

\* RemoteSchemaValidator._get_request_body, line 141: a new dict that
\* holds the instance and the schema; the two are read, not assigned
get_request_body(objects) ==
    [objects EXCEPT !.body = [object |-> objects.instance,
                              schema |-> objects.schema]]

\* Validator.assert_instance_matches_schema(instance, schema, validator).
\* With validator=None a RemoteSchemaValidator is built, whose
\* does_instance_match_schema builds the request body from the two
\* arguments, POSTs it and analyses the response; a strategy answers by
\* itself.
ValidatorAssert(instance, sch, strategy) ==
    /\ hc.pc = "idle"
    /\ LET c == [Call("assert_instance_matches_schema") EXCEPT
                    !.instance = instance, !.schema = sch,
                    !.strategy = strategy,
                    !.objects = [instance |-> instance, schema |-> sch,
                                 body |-> None]] IN
       IF strategy = "None"
       THEN LET o == get_request_body(c.objects) IN
            \E sc \in ValidatorAnswers(o.body.object, o.body.schema) :
                LET a == analyze_validation_response(sc)
                    r == [c EXCEPT !.objects = o,
                                   !.reqs = <<<<"POST", sc>>>>] IN
                hc' = IF a.err # "none"
                      THEN [r EXCEPT !.err = a.err,
                               !.raised = carried(c.op, a.err, sc)]
                      ELSE [r EXCEPT !.ret = <<a.result>>,
                               !.err = assert_instance_matches_schema(a.result)]
       ELSE LET result == does_instance_match_schema(strategy, instance, sch) IN
            hc' = [c EXCEPT !.ret = <<result>>,
                           !.err = assert_instance_matches_schema(result)]
    /\ UNCHANGED <<server, workers, iteration>>

\* Client.is_server_alive called directly
IsServerAlive ==
    /\ hc.pc = "idle"
    /\ \E sc \in Answers :
           hc' = [Call("is_server_alive") EXCEPT
                     !.reqs = <<<<"GET", sc>>>>,
                     !.ret = <<is_server_alive(sc)>>]
    /\ UNCHANGED <<server, workers, iteration>>

\* The gateway operations of client.py: the three fetches go through
\* _json_get, the checkin is a PATCH, the update a PUT.
Fetches == {"_service_details", "queue", "job_details"}
GatewayOps == Fetches \cup {"check_in_to_server", "_update"}

gateway_method(op) ==
    IF op \in Fetches THEN "GET"
    ELSE IF op = "check_in_to_server" THEN "PATCH" ELSE "PUT"

\* _json_get that takes every 2xx answer for a success
json_get_accepts_created(status_code) ==
    IF status_code \notin {HTTP_OK, HTTP_CREATED} THEN "NetworkError"
    ELSE "none"

\* _json_get as the fetches use it
fetch_error(status_code) == json_get(status_code)

gateway_error(op, status_code) ==
    IF op \in Fetches THEN fetch_error(status_code)
    ELSE IF op = "check_in_to_server" THEN check_in_to_server(status_code)
    ELSE update(status_code)

\* What a fetch returns: the `data` of the response
gateway_data(op, i) ==
    IF op = "_service_details" THEN <<ServiceDetails>>
    ELSE IF op = "queue" THEN <<Queue>>
    ELSE <<jobs[i]>>

\* A fetch or a checkin that sends its request once more when the answer
\* is not 200
GatewayRetrying(op, i) ==
    /\ hc.pc = "idle"
    /\ op # "_update"
    /\ op = "job_details" => i \in 1..Len(jobs)
    /\ op # "job_details" => i = 1
    /\ \E first, sc \in Answers :
           LET e == gateway_error(op, sc)
               sent == IF first = HTTP_OK THEN <<>>
                       ELSE <<<<gateway_method(op), first>>>>
               c == [Call(op) EXCEPT
                        !.job_id = i,
                        !.reqs = sent \o <<<<gateway_method(op), sc>>>>] IN
           hc' = IF e # "none"
                 THEN [c EXCEPT !.err = e, !.raised = carried(op, e, sc)]
                 ELSE IF op \in Fetches THEN [c EXCEPT !.ret = gateway_data(op, i)]
                 ELSE c
    /\ UNCHANGED <<server, workers, iteration>>

\* _json_get of the service details, of the queue or of job i, and
\* check_in_to_server: one request, then the check of its status code
Gateway(op, i) ==
    /\ hc.pc = "idle"
    /\ op # "_update"
    /\ op = "job_details" => i \in 1..Len(jobs)
    /\ op # "job_details" => i = 1
    /\ \E sc \in Answers :
           LET e == gateway_error(op, sc)
               c == [Call(op) EXCEPT
                        !.job_id = i,
                        !.reqs = <<<<gateway_method(op), sc>>>>] IN
           hc' = IF e # "none"
                 THEN [c EXCEPT !.err = e, !.raised = carried(op, e, sc)]
                 ELSE IF op \in Fetches THEN [c EXCEPT !.ret = gateway_data(op, i)]
                 ELSE c
    /\ UNCHANGED <<server, workers, iteration>>

\* The _job_dict a _Job may hold when _update is called: the details of a
\* job as fetched, with the status or the result a setter assigned
JobDicts ==
    {[jobs[i] EXCEPT !.status = s] : i \in 1..Len(jobs), s \in ValidStatuses}
    \cup {[jobs[i] EXCEPT !.result = run(jobs[i].parameters)] :
              i \in 1..Len(jobs)}

\* _Job._update, lines 470-488: one PUT of the _job_dict to
\* {address}/jobs/{id of the _job_dict}; the server that answers 200 has
\* replaced its job by the body
Update(job_dict) ==
    /\ hc.pc = "idle"
    /\ \E sc \in Answers :
           LET e == gateway_error("_update", sc)
               c == [Call("_update") EXCEPT
                        !.job_id = job_dict.id, !.body = job_dict,
                        !.overwrote = jobs[job_dict.id],
                        !.reqs = <<<<"PUT", sc>>>>] IN
           /\ hc' = IF e # "none"
                     THEN [c EXCEPT !.err = e,
                                    !.raised = carried("_update", e, sc)]
                     ELSE c
           /\ jobs' = Put(sc, job_dict)
    /\ UNCHANGED <<alive, queue_statuses, workers, iteration>>

\* The services the server reports as existing.
Services == {"service-1"}
Libraries == {"requests", "mock"}

\* GET {url}/services/{uuid}
ServiceAnswers(uuid) ==
    IF ~alive THEN {HTTP_SERVER_ERROR}
    ELSE IF uuid \in Services THEN {HTTP_OK, HTTP_SERVER_ERROR}
    ELSE {HTTP_NOT_FOUND, HTTP_SERVER_ERROR}

\* does_service_exist that takes every answer but a server error for a yes
does_service_exist_lenient(status_code) == status_code # HTTP_SERVER_ERROR

\* Service.does_service_exist
does_service_exist(status_code) == status_code = HTTP_STATUS_CODE_OK

\* _TopChefServicesGetter.__getitem__
getitem(service_uuid, url, library, status_code) ==
    IF ~does_service_exist(status_code)
    THEN [err |-> "ServiceNotFoundError", made |-> NoWorker, library |-> ""]
    ELSE [err |-> "none",
          made |-> [cls |-> "Service", address |-> url, id |-> service_uuid],
          library |-> library]

ServicesGetItem(service_uuid, url, library) ==
    /\ hc.pc = "idle"
    /\ \E sc \in ServiceAnswers(service_uuid) :
           LET r == getitem(service_uuid, url, library, sc) IN
           hc' = [Call("services.__getitem__") EXCEPT
                     !.uuid = service_uuid, !.reqs = <<<<"GET", sc>>>>,
                     !.err = r.err, !.made = r.made, !.library = r.library]
    /\ UNCHANGED <<server, workers, iteration>>

\* Service._get_data: the error raised for the GET's response status
get_data_error(status_code) ==
    IF status_code # HTTP_STATUS_CODE_OK THEN "NetworkError" ELSE "none"

\* Service.new_job, lines 88-93, from the POST's response
new_job(status_code, new_job_id, library) ==
    IF status_code # HTTP_CREATED
    THEN [err |-> "NetworkError", made_job |-> NoJobHandle]
    ELSE [err |-> "none",
          made_job |-> [job_id |-> new_job_id, library |-> library]]

\* The validator_factory argument of Service.new_job: the default, the
\* class Validator; the MagicMock of the unit test, whose validator accepts
\* whatever it is given; a factory whose validator rejects every instance.
ValidatorFactories == {"Validator", "MagicMock", "RejectingValidator"}

\* assert_instance_matches_schema of the validator that a factory other
\* than Validator made: it sends no request
factory_assert(factory) ==
    IF factory = "RejectingValidator" THEN "ProcessingError" ELSE "none"

\* Service.new_job, line 78, validator = validator_factory(...), and line
\* 80, self.job_registration_schema, the argument evaluated before the
\* validator is called
NewJob_schema(params, library, factory) ==
    /\ hc.pc = "idle"
    /\ \E sc \in Answers :
           LET e == get_data_error(sc)
               c == [Call("new_job") EXCEPT !.instance = params,
                                           !.library = library,
                                           !.factory = factory,
                                           !.reqs = <<<<"GET", sc>>>>] IN
           hc' = IF e # "none" THEN [c EXCEPT !.err = e]
                 ELSE [c EXCEPT !.pc = "validate",
                                !.schema = ServiceDetails.job_registration_schema]
    /\ UNCHANGED <<server, workers, iteration>>

\* Service.new_job, lines 79-81: validator.assert_instance_matches_schema.
\* The validator of the class Validator POSTs to the remote validator; the
\* validator of another factory answers by itself.
NewJob_validate ==
    /\ hc.pc = "validate"
    /\ IF hc.factory = "Validator"
       THEN \E sc \in ValidatorAnswers(hc.instance, hc.schema) :
                LET a == analyze_validation_response(sc)
                    e == IF a.err # "none" THEN a.err
                         ELSE assert_instance_matches_schema(a.result)
                    c == [hc EXCEPT !.reqs = Append(@, <<"POST", sc>>)] IN
                hc' = IF e # "none" THEN [c EXCEPT !.pc = "idle", !.err = e]
                      ELSE [c EXCEPT !.pc = "post"]
       ELSE LET e == factory_assert(hc.factory) IN
            hc' = IF e # "none" THEN [hc EXCEPT !.pc = "idle", !.err = e]
                  ELSE [hc EXCEPT !.pc = "post"]
    /\ UNCHANGED <<server, workers, iteration>>

\* POST {url}/services/{id}/jobs: the server creates the job when it
\* answers 201
JobAnswers ==
    IF alive /\ Len(jobs) < MaxJobs THEN StatusCodes
    ELSE {HTTP_SERVER_ERROR}

\* Service.new_job, lines 83-93
NewJob_post ==
    /\ hc.pc = "post"
    /\ \E sc \in JobAnswers :
           LET r == new_job(sc, Len(jobs) + 1, hc.library) IN
           /\ hc' = [hc EXCEPT !.pc = "idle",
                               !.reqs = Append(@, <<"POST", sc>>),
                               !.body = [NoJob EXCEPT !.parameters = hc.instance],
                               !.err = r.err, !.made_job = r.made_job]
           /\ jobs' = IF sc = HTTP_CREATED
                      THEN Append(jobs, [id |-> Len(jobs) + 1,
                                         status |-> "REGISTERED",
                                         parameters |-> hc.instance,
                                         result |-> None])
                      ELSE jobs
    /\ UNCHANGED <<alive, queue_statuses, workers, iteration>>

InitApi ==
    /\ alive = TRUE
    /\ jobs = <<>>
    /\ queue_statuses = {"REGISTERED"}
    /\ pc = [w \in WorkerIds |-> "absent"]
    /\ err = [w \in WorkerIds |-> "none"]
    /\ job_id = [w \in WorkerIds |-> 0]
    /\ job = [w \in WorkerIds |-> NoJob]
    /\ parameters = [w \in WorkerIds |-> None]
    /\ results = [w \in WorkerIds |-> None]
    /\ schema = [w \in WorkerIds |-> {}]
    /\ ppc = [w \in WorkerIds |-> "off"]
    /\ perr = [w \in WorkerIds |-> "none"]
    /\ poll_end_alive = [w \in WorkerIds |-> TRUE]
    /\ acq = [w \in WorkerIds |-> NoJob]
    /\ heads = [w \in WorkerIds |-> <<>>]
    /\ puts = [w \in WorkerIds |-> <<>>]
    /\ trace = [w \in WorkerIds |-> <<>>]
    /\ ran = [w \in WorkerIds |-> <<>>]
    /\ vresp = [w \in WorkerIds |-> <<>>]
    /\ queue_probe = [w \in WorkerIds |-> "none"]
    /\ polling = [w \in WorkerIds |-> "unset"]
    /\ checked_in = [w \in WorkerIds |-> FALSE]
    /\ worker_class = [w \in WorkerIds |-> "ClientForTesting"]
    /\ caller = [w \in WorkerIds |-> "none"]
    /\ direct = 0
    /\ hc = NoCall
    /\ runs = [w \in WorkerIds |-> <<>>]
    /\ registry = <<"service-1">>
    /\ it = NoGetter

NextApi ==
    \/ ServerDown
    \/ ServerUp
    \/ \E instance \in Instances, sch \in Schemas, strategy \in Strategies :
           ValidatorAssert(instance, sch, strategy)
    \/ \E cls \in Classes, address \in Addresses : NewService(cls, address)
    \/ \E service_uuid \in ServiceIds, url \in Addresses,
          library \in Libraries : ServicesGetItem(service_uuid, url, library)
    \/ \E params \in Instances, library \in Libraries,
          factory \in ValidatorFactories :
           NewJob_schema(params, library, factory)
    \/ NewJob_validate
    \/ NewJob_post

SpecApi == InitApi /\ [][NextApi]_vars

\* A program that calls the gateway operations of the core, one call at a
\* time, on a service whose users submit jobs: the liveness probe, the
\* fetches, the checkin, the job update and the remote validation
NextGateway ==
    \/ \E p \in Params : Submit(p)
    \/ ServerDown
    \/ ServerUp
    \/ IsServerAlive
    \/ \E op \in GatewayOps \ {"_update"}, i \in 1..MaxJobs : Gateway(op, i)
    \/ \E job_dict \in JobDicts : Update(job_dict)
    \/ \E instance \in Instances, sch \in Schemas :
           ValidatorAssert(instance, sch, "None")

SpecGateway == InitApi /\ [][NextGateway]_vars

\* ------------------------------------------ claims about the API model
\* C21: with a strategy supplied, assert_instance_matches_schema returns
\* normally exactly when the strategy reports a match and raises
\* ProcessingError exactly when it reports no match, and the remote validator
\* is not consulted; without one, the remote validator is.
Asserted == hc.op = "assert_instance_matches_schema"

C21_SchemaGate ==
    Asserted =>
        /\ hc.strategy # "None" =>
               /\ hc.reqs = <<>>
               /\ hc.ret = <<hc.strategy = "AlwaysTrueValidator">>
               /\ hc.err = "none" <=> hc.ret = <<TRUE>>
               /\ hc.err = "ProcessingError" <=> hc.ret = <<FALSE>>
        /\ hc.strategy = "None" =>
               Len(hc.reqs) = 1 /\ hc.reqs[1][1] = "POST"

C21_Witness ==
    /\ Asserted
    /\ hc.strategy = "AlwaysFalseValidator"
    /\ hc.instance \in hc.schema
    /\ hc.err = "ProcessingError"

\* C22: with the remote validator, a 200 makes
\* assert_instance_matches_schema return, a 400 makes it raise
\* ProcessingError, and every other status makes it raise NetworkError.
C22_RemoteOutcome ==
    (Asserted /\ hc.strategy = "None") =>
        LET sc == hc.reqs[1][2] IN
        /\ sc = HTTP_OK => hc.err = "none"
        /\ sc = HTTP_BAD_REQUEST => hc.err = "ProcessingError"
        /\ sc \notin {HTTP_OK, HTTP_BAD_REQUEST} => hc.err = "NetworkError"

C22_Witness ==
    /\ Asserted /\ hc.strategy = "None"
    /\ hc.reqs[1][2] = HTTP_CREATED
    /\ hc.err = "NetworkError"

\* C23: is_server_alive sends one GET, raises nothing, and answers true
\* exactly when the response status is 200.
C23_LivenessPredicate ==
    hc.op = "is_server_alive" =>
        /\ Len(hc.reqs) = 1 /\ hc.reqs[1][1] = "GET"
        /\ hc.err = "none"
        /\ hc.ret = <<hc.reqs[1][2] = HTTP_OK>>

C23_Witness ==
    /\ hc.op = "is_server_alive"
    /\ hc.reqs[1][2] = HTTP_BAD_REQUEST
    /\ hc.ret = <<FALSE>>

\* C24: each of fetch service details, checkin, fetch queue, fetch job
\* details and update job raises NetworkError and returns nothing when its
\* response status is not 200, and succeeds when it is 200: a fetch returns
\* the data of the response, and the server has replaced the job by the
\* body of the update, which it has not when the update failed.
C24_UnexpectedStatus ==
    hc.op \in GatewayOps =>
        LET sc == hc.reqs[1][2] IN
        /\ Len(hc.reqs) = 1
        /\ sc # HTTP_OK => hc.err = "NetworkError" /\ hc.ret = <<>>
        /\ sc = HTTP_OK =>
               /\ hc.err = "none"
               /\ hc.op = "_service_details" => hc.ret = <<ServiceDetails>>
               /\ hc.op \in {"queue", "job_details"} => hc.ret # <<>>
        /\ hc.op = "_update" =>
               /\ hc.body.id = hc.job_id /\ hc.ret = <<>>
               /\ jobs[hc.job_id] = IF sc = HTTP_OK THEN hc.body
                                    ELSE hc.overwrote

\* an update answered 201 has failed, and the server's job is as it was
C24_Witness ==
    /\ hc.op = "_update"
    /\ hc.reqs[1][2] = HTTP_CREATED
    /\ hc.err = "NetworkError"
    /\ hc.body.status = "COMPLETED"
    /\ jobs[hc.job_id].status = "REGISTERED"

\* C25: client.services[uuid] returns a Service bound to uuid when the GET
\* of the service endpoint is answered 200 and raises ServiceNotFoundError
\* for every other status; it returns no Service for a uuid the server does
\* not report as existing.
C25_ServiceLookup ==
    hc.op = "services.__getitem__" =>
        LET sc == hc.reqs[1][2] IN
        /\ sc = HTTP_OK =>
               /\ hc.err = "none"
               /\ hc.made.cls = "Service" /\ hc.made.id = hc.uuid
        /\ sc # HTTP_OK =>
               hc.err = "ServiceNotFoundError" /\ hc.made = NoWorker
        /\ hc.made # NoWorker => hc.uuid \in Services

C25_Witness ==
    /\ hc.op = "services.__getitem__"
    /\ hc.uuid = "service-2"
    /\ hc.reqs[1][2] = HTTP_NOT_FOUND
    /\ hc.err = "ServiceNotFoundError"

\* the create-job POST of the call has been sent
Posted == hc.op = "new_job" /\ hc.pc = "idle" /\ hc.body # NoJob

\* C26: Service.new_job sends the create-job POST with body {parameters}
\* only after assert_instance_matches_schema of the validator that the
\* validator_factory made has returned for the parameters and the
\* registration schema: with the default factory, after the remote
\* validator answered 200, which it does for matching parameters only; when
\* the assertion fails no create-job POST is sent and no job is created; on
\* 201 new_job returns a Job bound to the id of the response and to the
\* Service's HTTP library, on any other status it raises NetworkError.
C26_Gate ==
    hc.op = "new_job" =>
        /\ (hc.pc = "post" \/ Posted) =>
               /\ hc.reqs[1] = Ok("GET")
               /\ hc.schema = ServiceDetails.job_registration_schema
               /\ hc.factory = "Validator" =>
                      /\ hc.reqs[2] = Ok("POST")
                      /\ hc.instance \in ServiceDetails.job_registration_schema
               /\ hc.factory # "Validator" =>
                      factory_assert(hc.factory) = "none"
        /\ hc.err = "ProcessingError" =>
               /\ hc.body = NoJob /\ hc.made_job = NoJobHandle
               /\ hc.reqs[1] = Ok("GET")
               /\ hc.factory = "Validator" =>
                      hc.reqs = <<Ok("GET"), <<"POST", HTTP_BAD_REQUEST>>>>
               /\ hc.factory # "Validator" => hc.reqs = <<Ok("GET")>>
        /\ Posted =>
               LET sc == hc.reqs[Len(hc.reqs)][2] IN
               /\ Len(hc.reqs) = IF hc.factory = "Validator" THEN 3 ELSE 2
               /\ hc.reqs[Len(hc.reqs)][1] = "POST"
               /\ hc.body.parameters = hc.instance
               /\ sc = HTTP_CREATED =>
                      /\ hc.err = "none"
                      /\ hc.made_job.library = hc.library
                      /\ hc.made_job.job_id \in 1..Len(jobs)
                      /\ jobs[hc.made_job.job_id].parameters = hc.instance
               /\ sc # HTTP_CREATED =>
                      hc.err = "NetworkError" /\ hc.made_job = NoJobHandle

C26_Created ==
    (Len(jobs') # Len(jobs)) =>
        /\ hc.op = "new_job" /\ hc.pc = "post" /\ hc'.err = "none"
        /\ Len(jobs') = Len(jobs) + 1
        /\ jobs'[Len(jobs')].parameters = hc.instance
        /\ hc'.made_job.job_id = Len(jobs')

C26_GatedCreation == []C26_Gate /\ [][C26_Created]_vars

C26_Witness ==
    /\ Posted /\ hc.err = "none" /\ hc.factory = "Validator"
    /\ hc.made_job = [job_id |-> 2, library |-> "mock"]

\* the calls C31 is about: the liveness probe, the fetches, the checkin,
\* the job update and the remote validation
CoreCall(h) ==
    \/ h.op = "is_server_alive"
    \/ h.op \in GatewayOps
    \/ h.op = "assert_instance_matches_schema" /\ h.strategy = "None"

core_method(h) ==
    IF h.op = "is_server_alive" THEN "GET"
    ELSE IF h.op \in GatewayOps THEN gateway_method(h.op)
    ELSE "POST"

\* the status codes the operation does not raise NetworkError for
Expected(h) ==
    IF h.op = "is_server_alive" THEN StatusCodes
    ELSE IF h.op \in GatewayOps THEN {HTTP_OK}
    ELSE {HTTP_OK, HTTP_BAD_REQUEST}

\* C31: the liveness probe, the three fetches, the checkin, the job update
\* and the remote validation each send exactly one request per call, with
\* their own method; the call ends at the step of that request, and when
\* the answer is not an expected status it has ended with NetworkError and
\* returned nothing.
C31_OneRequest ==
    CoreCall(hc) =>
        /\ Len(hc.reqs) = 1 /\ hc.reqs[1][1] = core_method(hc)
        /\ hc.pc = "idle"
        /\ hc.reqs[1][2] \notin Expected(hc) =>
               hc.err = "NetworkError" /\ hc.ret = <<>>

C31_CallStep ==
    (hc' # hc /\ CoreCall(hc')) =>
        /\ hc.pc = "idle"
        /\ hc'.pc = "idle"
        /\ Len(hc'.reqs) = 1

C31_NoRetry == []C31_OneRequest /\ [][C31_CallStep]_vars

C31_Witness ==
    /\ alive
    /\ hc.op = "_update" /\ hc.pc = "idle"
    /\ hc.reqs = <<<<"PUT", HTTP_SERVER_ERROR>>>>
    /\ hc.err = "NetworkError"
    /\ jobs[hc.job_id] = hc.overwrote /\ hc.body # hc.overwrote

\* C32: assert_instance_matches_schema leaves the caller's instance and
\* schema as they were passed in, whether the call returned, raised
\* ProcessingError or raised NetworkError, with a strategy or with the
\* remote validator, which sends the two in a request body of its own.
C32_ArgumentsKept ==
    Asserted =>
        /\ hc.instance \in Instances /\ hc.schema \in Schemas
        /\ hc.objects.instance = hc.instance
        /\ hc.objects.schema = hc.schema
        /\ hc.strategy = "None" =>
               hc.objects.body = [object |-> hc.instance,
                                  schema |-> hc.schema]
        /\ hc.strategy # "None" => hc.objects.body = None

C32_Witness ==
    /\ Asserted /\ hc.strategy = "None"
    /\ hc.err = "NetworkError"
    /\ hc.instance = <<1>> /\ hc.objects.instance = <<1>>
    /\ hc.objects.schema = ServiceDetails.job_result_schema

\* C34: the NetworkError of create service, of each fetch, of the checkin,
\* of the job update and of the validation carries the endpoint that was
\* called and the status code of the response.
C34_ErrorCarries ==
    ((hc.op \in GatewayOps \cup {"new_service"} \/ Asserted)
        /\ hc.err = "NetworkError") =>
        /\ hc.raised.endpoint = endpoint(hc.op)
        /\ hc.raised.status_code = hc.reqs[1][2]

\* ------------------------------------------ iterating over client.services
\* A program that holds one _TopChefServicesGetter of api.py and calls
\* __next__ on it, while services register with and leave the server. Each
\* GET of the services endpoint is one step: the server answers it with the
\* registry as it is at that moment.
MaxServices == 3
MaxRounds == 2
RegistryIds == {"service-1", "service-2", "service-3"}

\* The sequence s without its i-th element
Without(s, i) == SubSeq(s, 1, i - 1) \o SubSeq(s, i + 1, Len(s))

\* _handle_iterator_stop that leaves the cursor where it is
handle_iterator_stop_keeps_cursor(last_iterated_index) == last_iterated_index

\* _TopChefServicesGetter._handle_iterator_stop: the cursor it leaves
handle_iterator_stop(last_iterated_index) == 0

\* __next__, line 167: is the iteration over
iterator_at_end(last_iterated_index, length) == last_iterated_index = length

\* __next__, lines 170-176: data[self._last_iterated_index] of the list
\* fetched, which Python indexes from 0
next_item(last_iterated_index, data) ==
    IF last_iterated_index + 1 \in 1..Len(data)
    THEN [err |-> "none", id |-> data[last_iterated_index + 1],
          cursor |-> last_iterated_index + 1]
    ELSE [err |-> "IndexError", id |-> "", cursor |-> last_iterated_index]

InitIter ==
    /\ alive = TRUE
    /\ jobs = <<>>
    /\ queue_statuses = {"REGISTERED"}
    /\ pc = [w \in WorkerIds |-> "absent"]
    /\ err = [w \in WorkerIds |-> "none"]
    /\ job_id = [w \in WorkerIds |-> 0]
    /\ job = [w \in WorkerIds |-> NoJob]
    /\ parameters = [w \in WorkerIds |-> None]
    /\ results = [w \in WorkerIds |-> None]
    /\ schema = [w \in WorkerIds |-> {}]
    /\ ppc = [w \in WorkerIds |-> "off"]
    /\ perr = [w \in WorkerIds |-> "none"]
    /\ poll_end_alive = [w \in WorkerIds |-> TRUE]
    /\ acq = [w \in WorkerIds |-> NoJob]
    /\ heads = [w \in WorkerIds |-> <<>>]
    /\ puts = [w \in WorkerIds |-> <<>>]
    /\ trace = [w \in WorkerIds |-> <<>>]
    /\ ran = [w \in WorkerIds |-> <<>>]
    /\ vresp = [w \in WorkerIds |-> <<>>]
    /\ queue_probe = [w \in WorkerIds |-> "none"]
    /\ polling = [w \in WorkerIds |-> "unset"]
    /\ checked_in = [w \in WorkerIds |-> FALSE]
    /\ worker_class = [w \in WorkerIds |-> "ClientForTesting"]
    /\ caller = [w \in WorkerIds |-> "none"]
    /\ direct = 0
    /\ hc = NoCall
    /\ runs = [w \in WorkerIds |-> <<>>]
    /\ registry = <<>>
    /\ it = NoGetter

\* A service registers with the server.
Register(s) ==
    /\ Len(registry) < MaxServices
    /\ \A i \in 1..Len(registry) : registry[i] # s
    /\ registry' = Append(registry, s)
    /\ it' = [it EXCEPT !.stable = ~it.held]
    /\ UNCHANGED <<server, workers, hc>>

\* A service leaves the server.
Unregister(i) ==
    /\ i \in 1..Len(registry)
    /\ registry' = Without(registry, i)
    /\ it' = [it EXCEPT !.stable = ~it.held]
    /\ UNCHANGED <<server, workers, hc>>

\* client.services: a new _TopChefServicesGetter
ClientServices ==
    /\ it.pc = "idle"
    /\ it' = [NoGetter EXCEPT !.held = TRUE]
    /\ UNCHANGED <<server, workers, hc, registry>>

\* __next__, lines 167-168: len(self), and _handle_iterator_stop when the
\* cursor equals it
Next_len ==
    /\ it.held /\ it.pc = "idle"
    /\ LET out == IF it.last = "StopIteration" THEN <<>> ELSE it.out IN
       IF iterator_at_end(it.cursor, Len(registry))
       THEN it' = [it EXCEPT !.cursor = handle_iterator_stop(it.cursor),
                             !.last = "StopIteration",
                             !.out = out, !.prev = out,
                             !.rounds = IF @ < MaxRounds THEN @ + 1 ELSE @]
       ELSE it' = [it EXCEPT !.pc = "item", !.out = out]
    /\ UNCHANGED <<server, workers, hc, registry>>

\* __next__, lines 170-176: the list is fetched again and indexed
Next_item ==
    /\ it.pc = "item"
    /\ LET r == next_item(it.cursor, registry) IN
       it' = IF r.err # "none"
             THEN [it EXCEPT !.pc = "idle", !.last = r.err]
             ELSE [it EXCEPT !.pc = "idle", !.last = "Service",
                             !.cursor = r.cursor, !.out = Append(@, r.id)]
    /\ UNCHANGED <<server, workers, hc, registry>>

NextIter ==
    \/ \E s \in RegistryIds : Register(s)
    \/ \E i \in 1..MaxServices : Unregister(i)
    \/ ClientServices
    \/ Next_len
    \/ Next_item

SpecIter == InitIter /\ [][NextIter]_vars

\* C33: while the registry is as it was when the getter was made, the ids
\* yielded so far are the first ones of the registry, in its order; an
\* iteration that ends with StopIteration has yielded the whole registry,
\* each service once, and leaves the cursor at 0, so the next iteration over
\* the same getter starts from the first service again.
C33_ServicesIteration ==
    (it.held /\ it.stable) =>
        /\ it.last # "IndexError"
        /\ IsPrefix(it.out, registry)
        /\ (it.pc = "idle" /\ it.last = "StopIteration") =>
               it.out = registry /\ it.cursor = 0
        /\ (it.pc = "item" \/ it.last # "StopIteration") =>
               it.cursor = Len(it.out)
        /\ it.rounds > 0 => it.prev = registry

C33_Witness ==
    /\ it.held /\ it.stable
    /\ Len(registry) = MaxServices
    /\ it.rounds = 2 /\ it.last = "StopIteration"
    /\ it.prev = registry /\ it.out = registry

\* C38: whatever happens to the registry between the fetches, no __next__
\* ends in an out-of-range failure: a call that does not yield a service
\* ends with StopIteration and leaves the cursor at 0.
C38_EndsWithStopIteration ==
    (it.held /\ it.pc = "idle" /\ it.last \notin {"none", "Service"}) =>
        it.last = "StopIteration" /\ it.cursor = 0

====
